---- MODULE Spec2Model ----
(***************************************************************************)
(* LayoutFlow DSL editor: the layout resolution engine                     *)
(* (src/utils/layoutUtils.ts) and the editor state that drives it          *)
(* (src/App.tsx, src/components/Canvas.tsx, the property panel).           *)
(*                                                                         *)
(* JavaScript numbers are IEEE-754 binary64 values: every sum, difference,  *)
(* product and quotient is the exact result rounded to 53 significant bits *)
(* (to nearest, ties to even), as the engine computes it.  Optional fields *)
(* (zIndex, isContainer, _runtime) are sequences of length 0 (absent) or 1 *)
(* (present).                                                              *)
(***************************************************************************)
EXTENDS Integers, Sequences, FiniteSets, TLC

VARIABLES
    conv,        \* conversion workbench: one call of the unit/anchor transforms
    elements,    \* the element list (App.tsx `elements`, or the engine's input)
    viewport,    \* the viewport (App.tsx `viewport`, or the engine's input)
    output,      \* the engine's last result on (elements, viewport)
    withParents, \* Pass 3: the Pass-2 list the resolution runs over
    finalMap,    \* Pass 3: the cache `finalMap`
    frames,      \* Pass 3: the call stack of calculateElement
    cursor,      \* Pass 3: the position of `withParents.forEach`
    resolved,    \* Pass 3: ids in the order they were written to finalMap
    selectedId,  \* App.tsx `selectedId`
    dragState,   \* Canvas.tsx `dragState`
    tempRect,    \* Canvas.tsx `tempRect`, the override rectangle of the dragged element
    effectPending, \* the viewport effect of App.tsx is scheduled and has not run yet
    mode,        \* App.tsx `mode`: 'editor', 'preview' or 'yaml'
    opCount      \* number of user events handled so far, pointer moves and releases apart

vars == <<conv, elements, viewport, output, withParents, finalMap, frames, cursor, resolved,
          selectedId, dragState, tempRect, effectPending, mode, opCount>>

-----------------------------------------------------------------------------
(* Numbers *)

\* Each operation binds its operands once (a bound variable holds a value), so that a
\* nested expression is evaluated once per operand wherever it is used.

Abs(n) == IF n < 0 THEN -n ELSE n

\* A `const` binding is written CHOOSE it \in {e(x) : x \in {v}} : TRUE, which
\* evaluates v once and is e at that value.

\* limbs of the exact intermediate results: base 2^15, least significant first
LimbBits == 15
LimbBase == 32768
\* the short form <<n, d>> holds |n| < 2^SmallBits over d <= 2^SmallFraction
SmallBits == 20
SmallFraction == 9
\* binary64: 53 significant bits, least exponent -1074, 2^1024 overflows
SignificandBits == 53
MinExponent == -1074
OverflowBits == 1024
ExponentBias == 1075
\* an addend this many binary places below the other only decides the rounding
FarBelow == 120

Pow2Table ==
    <<1, 2, 4, 8, 16, 32, 64, 128, 256, 512, 1024, 2048, 4096, 8192, 16384, 32768,
      65536, 131072, 262144, 524288, 1048576, 2097152, 4194304, 8388608, 16777216,
      33554432, 67108864, 134217728, 268435456, 536870912, 1073741824>>
Pow2(k) == Pow2Table[k + 1]

RECURSIVE BitLength(_)
BitLength(n) == IF n = 0 THEN 0 ELSE 1 + BitLength(n \div 2)

\* the number of trailing zero bits of n > 0
RECURSIVE LowZeros(_)
LowZeros(n) == IF n % 2 = 1 THEN 0 ELSE 1 + LowZeros(n \div 2)

NaN == <<0, 0>>
Infinity(sign) == <<sign, 0>>
Zero == <<0, 1>>
IsFinite(a) == a[2] # 0
IsShort(a) == Len(a) = 2
Sign(a) == IF a[1] < 0 THEN -1 ELSE IF a[1] > 0 THEN 1 ELSE 0
Neg(a) == [a EXCEPT ![1] = -a[1]]

(* natural numbers of any size, as limbs *)

RECURSIVE NatOf(_)
NatOf(n) == IF n = 0 THEN <<>> ELSE <<n % LimbBase>> \o NatOf(n \div LimbBase)

RECURSIVE IntOf(_)
IntOf(N) == IF N = <<>> THEN 0 ELSE N[1] + LimbBase * IntOf(Tail(N))

RECURSIVE Trim(_)
Trim(N) ==
    IF N = <<>> THEN N
    ELSE IF N[Len(N)] = 0 THEN Trim(SubSeq(N, 1, Len(N) - 1)) ELSE N

RECURSIVE Zeros(_)
Zeros(n) == IF n = 0 THEN <<>> ELSE <<0>> \o Zeros(n - 1)

NatBits(N) == IF N = <<>> THEN 0 ELSE LimbBits * (Len(N) - 1) + BitLength(N[Len(N)])

RECURSIVE NatAddFrom(_, _, _, _)
NatAddFrom(a, b, i, carry) ==
    IF i > Len(a) /\ i > Len(b) THEN (IF carry = 0 THEN <<>> ELSE <<carry>>)
    ELSE (CHOOSE it \in
             {<<s % LimbBase>> \o NatAddFrom(a, b, i + 1, s \div LimbBase)
                : s \in {(IF i <= Len(a) THEN a[i] ELSE 0)
                          + (IF i <= Len(b) THEN b[i] ELSE 0) + carry}} : TRUE)
NatAdd(a, b) == (CHOOSE it \in {NatAddFrom(p[1], p[2], 1, 0) : p \in {<<a, b>>}} : TRUE)

\* a - b for a >= b
RECURSIVE NatSubFrom(_, _, _, _)
NatSubFrom(a, b, i, borrow) ==
    IF i > Len(a) THEN <<>>
    ELSE (CHOOSE it \in
             {<<(d + LimbBase) % LimbBase>>
              \o NatSubFrom(a, b, i + 1, IF d < 0 THEN 1 ELSE 0)
                : d \in {a[i] - (IF i <= Len(b) THEN b[i] ELSE 0) - borrow}} : TRUE)
NatSub(a, b) == (CHOOSE it \in {Trim(NatSubFrom(p[1], p[2], 1, 0)) : p \in {<<a, b>>}} : TRUE)

RECURSIVE NatCmpFrom(_, _, _)
NatCmpFrom(a, b, i) ==
    IF i = 0 THEN 0
    ELSE IF a[i] = b[i] THEN NatCmpFrom(a, b, i - 1)
    ELSE IF a[i] < b[i] THEN -1 ELSE 1
NatCmp(a, b) ==
    (CHOOSE it \in
        {IF Len(p[1]) # Len(p[2]) THEN (IF Len(p[1]) < Len(p[2]) THEN -1 ELSE 1)
         ELSE NatCmpFrom(p[1], p[2], Len(p[1]))
           : p \in {<<a, b>>}} : TRUE)

\* a * k for a limb k
RECURSIVE NatMulLimbFrom(_, _, _, _)
NatMulLimbFrom(a, k, i, carry) ==
    IF i > Len(a) THEN (IF carry = 0 THEN <<>> ELSE <<carry>>)
    ELSE (CHOOSE it \in
             {<<s % LimbBase>> \o NatMulLimbFrom(a, k, i + 1, s \div LimbBase)
                : s \in {a[i] * k + carry}} : TRUE)
NatMulLimb(a, k) ==
    (CHOOSE it \in {Trim(NatMulLimbFrom(p[1], p[2], 1, 0)) : p \in {<<a, k>>}} : TRUE)

RECURSIVE NatMulFrom(_, _, _)
NatMulFrom(a, b, i) ==
    IF i > Len(b) THEN <<>>
    ELSE NatAdd(NatMulLimb(a, b[i]), <<0>> \o NatMulFrom(a, b, i + 1))
NatMul(a, b) == (CHOOSE it \in {Trim(NatMulFrom(p[1], p[2], 1)) : p \in {<<a, b>>}} : TRUE)

\* N * 2^k
Shl(N, k) ==
    (CHOOSE it \in
        {IF p[1] = <<>> THEN <<>>
         ELSE Zeros(p[2] \div LimbBits) \o NatMulLimb(p[1], Pow2(p[2] % LimbBits))
           : p \in {<<N, k>>}} : TRUE)

\* floor(N / 2^k)
RECURSIVE ShrFrom(_, _, _)
ShrFrom(N, i, low) ==
    IF i > Len(N) THEN <<>>
    ELSE <<(N[i] \div low) + (IF i < Len(N) THEN (N[i + 1] % low) * (LimbBase \div low) ELSE 0)>>
            \o ShrFrom(N, i + 1, low)
Shr(N, k) ==
    (CHOOSE it \in
        {Trim(ShrFrom(p[1], (p[2] \div LimbBits) + 1, Pow2(p[2] % LimbBits)))
           : p \in {<<N, k>>}} : TRUE)

\* bit k of N (bit 0 is the least significant)
BitAt(N, k) ==
    (CHOOSE it \in
        {IF (p[2] \div LimbBits) + 1 > Len(p[1]) THEN 0
         ELSE (p[1][(p[2] \div LimbBits) + 1] \div Pow2(p[2] % LimbBits)) % 2
           : p \in {<<N, k>>}} : TRUE)

\* the k lowest bits of N are all zero
RECURSIVE LowLimbsZero(_, _)
LowLimbsZero(N, n) == n = 0 \/ ((n <= Len(N) => N[n] = 0) /\ LowLimbsZero(N, n - 1))
LowBitsZero(N, k) ==
    \A p \in {<<N, k>>} :
        /\ LowLimbsZero(p[1], p[2] \div LimbBits)
        /\ (p[2] \div LimbBits) + 1 <= Len(p[1])
              => p[1][(p[2] \div LimbBits) + 1] % Pow2(p[2] % LimbBits) = 0

\* the number of trailing zero bits of N > 0
RECURSIVE NatLowZeros(_, _)
NatLowZeros(N, i) == IF N[i] = 0 THEN LimbBits + NatLowZeros(N, i + 1) ELSE LowZeros(N[i])

\* <<floor(N / d), N mod d>> for a limb d, from the most significant limb down
RECURSIVE ShortDivFrom(_, _, _, _)
ShortDivFrom(N, d, i, r) ==
    IF i = 0 THEN <<<<>>, r>>
    ELSE (CHOOSE it \in
             {(CHOOSE it \in
                  {<<Append(rest[1], cur \div d), rest[2]>>
                     : rest \in {ShortDivFrom(N, d, i - 1, cur % d)}} : TRUE)
                : cur \in {r * LimbBase + N[i]}} : TRUE)
ShortDiv(N, d) ==
    (CHOOSE it \in
        {(CHOOSE it \in
             {<<Trim(qr[1]), qr[2]>>
                : qr \in {ShortDivFrom(p[1], p[2], Len(p[1]), 0)}} : TRUE)
           : p \in {<<N, d>>}} : TRUE)

\* <<Q * 2^k + floor(R * 2^k / D), the remainder>> for R < D, one quotient bit per step
RECURSIVE LongDivBits(_, _, _, _)
LongDivBits(R, D, k, Q) ==
    IF k = 0 THEN <<Q, R>>
    ELSE (CHOOSE it \in
             {IF NatCmp(p[1], p[2]) >= 0
              THEN LongDivBits(NatSub(p[1], p[2]), p[2], k - 1, NatAdd(p[3], <<1>>))
              ELSE LongDivBits(p[1], p[2], k - 1, p[3])
                : p \in {<<NatAdd(R, R), D, NatAdd(Q, Q)>>}} : TRUE)

\* the same for n limbs of quotient bits, a limb at a time
RECURSIVE LongDiv(_, _, _, _)
LongDiv(R, D, n, Q) ==
    IF n = 0 THEN <<Q, R>>
    ELSE (CHOOSE it \in
             {LongDiv(qr[2], D, n - 1, qr[1])
                : qr \in {LongDivBits(R, D, LimbBits, Q)}} : TRUE)

(* binary64 values *)
\* A finite value is sign * N * 2^e.  Its form is the short <<n, d>> (the value n / d,
\* d a power of two, n odd unless d = 1) when that fits, and otherwise
\* <<sign, e + ExponentBias>> \o N with N odd.  -0 is held as 0: no comparison of the
\* code tells them apart and every division of the code is guarded against both.

\* sign * N * 2^e in its form, N odd
PackOdd(s, e, N) ==
    (CHOOSE it \in
        {IF p[2] >= -SmallFraction
               /\ NatBits(p[3]) + (IF p[2] > 0 THEN p[2] ELSE 0) <= SmallBits
         THEN <<p[1] * IntOf(p[3]) * Pow2(IF p[2] > 0 THEN p[2] ELSE 0),
                Pow2(IF p[2] < 0 THEN -p[2] ELSE 0)>>
         ELSE <<p[1], p[2] + ExponentBias>> \o p[3]
           : p \in {<<s, e, N>>}} : TRUE)

\* sign * N * 2^e in its form, N > 0 of at most 53 bits
Pack(s, e, N) ==
    (CHOOSE it \in
        {PackOdd(s, e + p[2], Shr(p[1], p[2]))
           : p \in {<<N, NatLowZeros(N, 1)>>}} : TRUE)

\* overflow to an infinity, underflow to zero
Finish(s, e, N) ==
    (CHOOSE it \in
        {IF p[2] = <<>> THEN Zero
         ELSE IF NatBits(p[2]) + p[1] > OverflowBits THEN Infinity(s)
         ELSE Pack(s, p[1], p[2])
           : p \in {<<e, N>>}} : TRUE)

\* N without its sh lowest bits, rounded to nearest, ties to even; `inexact` says that
\* bits below bit 0 of N were lost before
RoundedShift(N, inexact, sh) ==
    (CHOOSE it \in
        {IF r[2] = 1 /\ (r[3] \/ (r[1] # <<>> /\ r[1][1] % 2 = 1)) THEN NatAdd(r[1], <<1>>)
         ELSE r[1]
           : r \in {<<Shr(N, sh), BitAt(N, sh - 1), inexact \/ ~LowBitsZero(N, sh - 1)>>}} : TRUE)

\* the binary64 value nearest to sign * (N + f) * 2^e, where 0 <= f < 1 and
\* f > 0 iff inexact (then N has more than 53 bits)
Round(s, e, N, inexact) ==
    (CHOOSE it \in
        {(CHOOSE it \in
             {Finish(s, IF sh <= 0 THEN p[1] ELSE p[1] + sh,
                     IF sh <= 0 THEN p[2] ELSE RoundedShift(p[2], inexact, sh))
                : sh \in {IF p[1] + p[3] - SignificandBits > MinExponent
                          THEN p[3] - SignificandBits ELSE MinExponent - p[1]}} : TRUE)
           : p \in {<<e, N, NatBits(N)>>}} : TRUE)

\* <<sign, e, N>> of a finite non-zero value
Unpack(a) ==
    IF IsShort(a) THEN <<Sign(a), 1 - BitLength(a[2]), NatOf(Abs(a[1]))>>
    ELSE <<a[1], a[2] - ExponentBias, SubSeq(a, 3, Len(a))>>

\* an integer below 2^SmallBits
Num(n) == <<n, 1>>

\* <<sign, N>> of s1 * N1 + s2 * N2
AddSigned(s1, N1, s2, N2) ==
    IF s1 = s2 THEN <<s1, NatAdd(N1, N2)>>
    ELSE (CHOOSE it \in
             {<<t[1], NatSub(t[2], t[3])>>
                : t \in {IF NatCmp(N1, N2) >= 0 THEN <<s1, N1, N2>> ELSE <<s2, N2, N1>>}} : TRUE)

\* x + y for unpacked x, y with the exponent of x not below that of y, by k places
AddUnpacked(x, y, k) ==
    (CHOOSE it \in
        {Round(sum[1], IF k > FarBelow THEN x[2] - FarBelow ELSE y[2], sum[2], FALSE)
           : sum \in {AddSigned(x[1], Shl(x[3], IF k > FarBelow THEN FarBelow ELSE k),
                                y[1], IF k > FarBelow THEN <<1>> ELSE y[3])}} : TRUE)

AddFinite(a, b) ==
    IF a = Zero THEN b
    ELSE IF b = Zero THEN a
    ELSE (CHOOSE it \in
             {(CHOOSE it \in
                  {AddUnpacked(v[1], v[2], v[1][2] - v[2][2])
                     : v \in {IF u[1][2] >= u[2][2] THEN u ELSE <<u[2], u[1]>>}} : TRUE)
                : u \in {<<Unpack(a), Unpack(b)>>}} : TRUE)

MulFinite(a, b) ==
    IF a = Zero \/ b = Zero THEN Zero
    ELSE (CHOOSE it \in
             {Round(u[1][1] * u[2][1], u[1][2] + u[2][2], NatMul(u[1][3], u[2][3]), FALSE)
                : u \in {<<Unpack(a), Unpack(b)>>}} : TRUE)

\* x / y for unpacked x, y, as <<e, Q, inexact>>: 75 more quotient bits than the
\* operands give, by limbs
DivByLimb(x, y) ==
    (CHOOSE it \in
        {<<x[2] - y[2] - 5 * LimbBits, qr[1], qr[2] # 0>>
           : qr \in {ShortDiv(Zeros(5) \o x[3], y[3][1])}} : TRUE)

\* x / y for unpacked x, y, as <<e, Q, inexact>>: the operands are scaled by 2^t so
\* that 1/4 < R / D < 1, then 60 quotient bits are taken
DivByBits(x, y) ==
    (CHOOSE it \in
        {(CHOOSE it \in
             {<<x[2] - y[2] + t - 4 * LimbBits, qr[1], qr[2] # <<>>>>
                : qr \in {LongDiv(Shl(x[3], IF t < 0 THEN -t ELSE 0),
                                  Shl(y[3], IF t > 0 THEN t ELSE 0), 4, <<>>)}} : TRUE)
           : t \in {NatBits(x[3]) - NatBits(y[3]) + 1}} : TRUE)

\* a / b for finite a and b # 0
DivFinite(a, b) ==
    IF a = Zero THEN Zero
    ELSE (CHOOSE it \in
             {(CHOOSE it \in
                  {Round(u[1][1] * u[2][1], q[1], q[2], q[3])
                     : q \in {IF Len(u[2][3]) = 1 THEN DivByLimb(u[1], u[2])
                               ELSE DivByBits(u[1], u[2])}} : TRUE)
                : u \in {<<Unpack(a), Unpack(b)>>}} : TRUE)

Add(a, b) ==
    (CHOOSE it \in
        {IF IsFinite(p[1]) /\ IsFinite(p[2]) THEN AddFinite(p[1], p[2])
         ELSE IF p[1] = NaN \/ p[2] = NaN THEN NaN
         ELSE IF IsFinite(p[2]) THEN p[1]
         ELSE IF IsFinite(p[1]) \/ p[1] = p[2] THEN p[2]
         ELSE NaN
           : p \in {<<a, b>>}} : TRUE)
Sub(a, b) == Add(a, Neg(b))
Mul(a, b) ==
    (CHOOSE it \in
        {IF IsFinite(p[1]) /\ IsFinite(p[2]) THEN MulFinite(p[1], p[2])
         ELSE IF p[1] = NaN \/ p[2] = NaN \/ p[1] = Zero \/ p[2] = Zero THEN NaN
         ELSE Infinity(Sign(p[1]) * Sign(p[2]))
           : p \in {<<a, b>>}} : TRUE)
Div(a, b) ==
    (CHOOSE it \in
        {IF IsFinite(p[1]) /\ IsFinite(p[2])
         THEN (IF p[2] # Zero THEN DivFinite(p[1], p[2])
               ELSE IF p[1] = Zero THEN NaN ELSE Infinity(Sign(p[1])))
         ELSE IF p[1] = NaN \/ p[2] = NaN THEN NaN
         ELSE IF IsFinite(p[1]) THEN Zero
         ELSE IF IsFinite(p[2]) THEN Infinity(Sign(p[1]) * (IF Sign(p[2]) < 0 THEN -1 ELSE 1))
         ELSE NaN
           : p \in {<<a, b>>}} : TRUE)

\* the sign of a - b for numbers other than NaN
Compare(a, b) ==
    IF a = b THEN 0
    ELSE IF IsShort(a) /\ IsShort(b) /\ IsFinite(a) /\ IsFinite(b)
    THEN (IF a[1] * b[2] < b[1] * a[2] THEN -1 ELSE 1)
    ELSE Sign(Sub(a, b))
Leq(a, b) == \A p \in {<<a, b>>} : p[1] # NaN /\ p[2] # NaN /\ Compare(p[1], p[2]) <= 0
Less(a, b) == \A p \in {<<a, b>>} : p[1] # NaN /\ p[2] # NaN /\ Compare(p[1], p[2]) < 0

Hundred == <<100, 1>>
Two == <<2, 1>>

-----------------------------------------------------------------------------
(* Types (src/types.ts) *)

PX == "px"
PERCENT_PARENT_W == "%p_w"
PERCENT_PARENT_H == "%p_h"
VW == "vw"
VH == "vh"
UnitType == {PX, PERCENT_PARENT_W, PERCENT_PARENT_H, VW, VH}

AnchorX == {"left", "center", "right"}
AnchorY == {"top", "center", "bottom"}

\* `null` as a parentId
Null == "<null>"
\* an absent optional field, and a present one
Absent == <<>>
Some(v) == <<v>>

LayoutValue(v, u) == [value |-> v, unit |-> u]
Rect(x, y, w, h) == [x |-> x, y |-> y, width |-> w, height |-> h]
Viewport(w, h) == [width |-> w, height |-> h]
ViewportRect(vp) == Rect(Zero, Zero, vp.width, vp.height)

-----------------------------------------------------------------------------
(* Unit resolver and anchor transform (src/utils/layoutUtils.ts) *)

RelativeUnits == {PERCENT_PARENT_W, PERCENT_PARENT_H, VW, VH}

resolveLength_UsesOrigin(val, vp, parentRect) ==
    IF val.unit \in RelativeUnits
    THEN Mul(Div(val.value, Hundred),
             CASE val.unit = PERCENT_PARENT_W -> parentRect.x
               [] val.unit = PERCENT_PARENT_H -> parentRect.y
               [] val.unit = VW -> vp.width
               [] val.unit = VH -> vp.height)
    ELSE val.value

\* the `switch (val.unit)`: px and the default return the value, every other case
\* returns (val.value / 100) * the dimension its unit names
resolveLength(val, vp, parentRect) ==
    IF val.unit \in RelativeUnits
    THEN Mul(Div(val.value, Hundred),
             CASE val.unit = PERCENT_PARENT_W -> parentRect.width
               [] val.unit = PERCENT_PARENT_H -> parentRect.height
               [] val.unit = VW -> vp.width
               [] val.unit = VH -> vp.height)
    ELSE val.value

isGlobal(unit) == unit = VW \/ unit = VH

refRectOf_AlwaysParent(unit, vp, parentRect) ==
    Rect(parentRect.x, parentRect.y, parentRect.width, parentRect.height)

refRectOf(unit, vp, parentRect) ==
    IF isGlobal(unit) THEN ViewportRect(vp)
    ELSE Rect(parentRect.x, parentRect.y, parentRect.width, parentRect.height)

\* the near edge and the extent of a rectangle along an axis
originOf(refRect, axis) == IF axis = "x" THEN refRect.x ELSE refRect.y
extentOf(refRect, axis) == IF axis = "x" THEN refRect.width ELSE refRect.height
\* the anchors of an axis by their role: 'left' | 'top', 'right' | 'bottom', 'center'
anchorRole(anchor, axis) ==
    CASE anchor = (IF axis = "x" THEN "left" ELSE "top") -> "start"
      [] anchor = (IF axis = "x" THEN "right" ELSE "bottom") -> "end"
      [] anchor = "center" -> "center"
      [] OTHER -> "none"

convertOffsetToAbsolute_EndIgnoresSize(val, anchor, axis, elementSize, vp, parentRect) ==
    CHOOSE it \in
        {CASE role = "start" -> Add(o, length)
           [] role = "end" -> Sub(Add(o, d), length)
           [] role = "center" -> Sub(Add(Add(o, Div(d, Two)), length), Div(elementSize, Two))
           [] OTHER -> Zero :
         length \in {resolveLength(val, vp, parentRect)},
         o \in {originOf(refRectOf(val.unit, vp, parentRect), axis)},
         d \in {extentOf(refRectOf(val.unit, vp, parentRect), axis)},
         role \in {anchorRole(anchor, axis)}} : TRUE

\* both branches of `if (axis === 'x')` are the same three returns, on x and width or on
\* y and height; `return 0` is reached by an anchor of the other axis
convertOffsetToAbsolute(val, anchor, axis, elementSize, vp, parentRect) ==
    CHOOSE it \in
        {CASE role = "start" -> Add(o, length)
           [] role = "end" -> Sub(Sub(Add(o, d), length), elementSize)
           [] role = "center" -> Sub(Add(Add(o, Div(d, Two)), length), Div(elementSize, Two))
           [] OTHER -> Zero :
         length \in {resolveLength(val, vp, parentRect)},
         o \in {originOf(refRectOf(val.unit, vp, parentRect), axis)},
         d \in {extentOf(refRectOf(val.unit, vp, parentRect), axis)},
         role \in {anchorRole(anchor, axis)}} : TRUE

\* the pixel offset of convertAbsoluteToOffset, before its unit conversion
pixelOffsetOf(absPos, anchor, axis, elementSize, refRect) ==
    CHOOSE it \in
        {CASE role = "start" -> Sub(absPos, o)
           [] role = "end" -> Sub(Sub(Add(o, d), absPos), elementSize)
           [] role = "center" -> Sub(Add(absPos, Div(elementSize, Two)), Add(o, Div(d, Two)))
           [] OTHER -> Zero :
         o \in {originOf(refRect, axis)}, d \in {extentOf(refRect, axis)},
         role \in {anchorRole(anchor, axis)}} : TRUE

\* what JavaScript's division yields for a zero divisor: NaN for 0/0, an infinity otherwise
DivByZero(a) == IF a = Zero THEN NaN ELSE Infinity(Sign(a))

\* the dimension a relative unit is a percentage of
percentBase(unit, vp, parentRect) ==
    CASE unit = PERCENT_PARENT_W -> parentRect.width
      [] unit = PERCENT_PARENT_H -> parentRect.height
      [] unit = VW -> vp.width
      [] unit = VH -> vp.height

fromPixels_NoZeroGuard(pixels, targetUnit, vp, parentRect) ==
    IF targetUnit \in RelativeUnits
    THEN CHOOSE it \in {IF a[2] = Zero THEN DivByZero(a[1]) ELSE Mul(Div(a[1], a[2]), Hundred) :
                        a \in {<<pixels, percentBase(targetUnit, vp, parentRect)>>}} : TRUE
    ELSE pixels

\* the `switch (targetUnit)`: px and the default return the pixels, every other case
\* returns 0 for a zero dimension and (pixels / dimension) * 100 otherwise
fromPixels(pixels, targetUnit, vp, parentRect) ==
    IF targetUnit \in RelativeUnits
    THEN CHOOSE it \in {IF a[2] = Zero THEN Zero ELSE Mul(Div(a[1], a[2]), Hundred) :
                        a \in {<<pixels, percentBase(targetUnit, vp, parentRect)>>}} : TRUE
    ELSE pixels

convertAbsoluteToOffset_CenterIgnoresSize(absPos, anchor, axis, elementSize, targetUnit, vp, parentRect) ==
    fromPixels(pixelOffsetOf(absPos, anchor, axis,
                             IF anchor = "center" THEN Zero ELSE elementSize,
                             refRectOf(targetUnit, vp, parentRect)),
               targetUnit, vp, parentRect)

\* its `switch (targetUnit)` is the one of fromPixels, statement for statement
convertAbsoluteToOffset(absPos, anchor, axis, elementSize, targetUnit, vp, parentRect) ==
    fromPixels(pixelOffsetOf(absPos, anchor, axis, elementSize,
                             refRectOf(targetUnit, vp, parentRect)),
               targetUnit, vp, parentRect)

toPixels(val, vp, parentRect) == resolveLength(val, vp, parentRect)


-----------------------------------------------------------------------------
(* Elements: id, LayoutConfig and the optional _runtime (src/types.ts) *)

\* `name` is no field of the type: it is the key the property panel's name field adds
\* to the layout object, absent until then
LayoutConfig(x, y, w, h, z, ax, ay, c) ==
    [x |-> x, y |-> y, width |-> w, height |-> h,
     zIndex |-> z, anchorX |-> ax, anchorY |-> ay, isContainer |-> c, name |-> Absent]

Runtime(x, y, w, h, p) == [x |-> x, y |-> y, width |-> w, height |-> h, parentId |-> p]

Element(id, layout) == [id |-> id, layout |-> layout, runtime |-> Absent]

\* `a || d` on an anchor token: the empty string stands for an absent anchor
OrElse(a, d) == IF a = "" THEN d ELSE a
\* `zIndex || 0`
OrZero(z) == IF z = Absent THEN 0 ELSE z[1]
\* a string's truthiness, for `if (el._runtime?.parentId)`
Truthy(id) == id # Null /\ id # ""

Indices(seq, id) == {i \in 1..Len(seq) : seq[i].id = id}
Has(seq, id) == Indices(seq, id) # {}
\* Array.prototype.find: the first element with that id
Find(seq, id) == seq[CHOOSE i \in Indices(seq, id) : \A j \in Indices(seq, id) : i <= j]

-----------------------------------------------------------------------------
(* calculateRuntimePositions, Pass 1: estimate against the viewport *)

resolveAgainst(el, vp, parentRect, parentId) ==
    CHOOSE it \in
        {CHOOSE placed \in
            {[a[1] EXCEPT !.runtime = Some(Runtime(x, y, width, height, parentId))] :
             x \in {convertOffsetToAbsolute(a[1].layout.x, OrElse(a[1].layout.anchorX, "left"),
                                            "x", width, a[2], a[3])},
             y \in {convertOffsetToAbsolute(a[1].layout.y, OrElse(a[1].layout.anchorY, "top"),
                                            "y", height, a[2], a[3])}} : TRUE :
         a \in {<<el, vp, parentRect>>},
         width \in {toPixels(el.layout.width, vp, parentRect)},
         height \in {toPixels(el.layout.height, vp, parentRect)}} : TRUE

RECURSIVE estimateFirst_KeepsRuntime(_, _, _)
estimateFirst_KeepsRuntime(n, els, vp) ==
    IF n = 0 THEN <<>>
    ELSE Append(estimateFirst_KeepsRuntime(n - 1, els, vp),
                IF els[n].runtime # Absent
                THEN [els[n] EXCEPT !.runtime = Some([els[n].runtime[1] EXCEPT !.parentId = Null])]
                ELSE resolveAgainst(els[n], vp, ViewportRect(vp), Null))

\* elements.map(...) over the first n elements
RECURSIVE estimateFirst(_, _, _)
estimateFirst(n, els, vp) ==
    IF n = 0 THEN <<>>
    ELSE Append(estimateFirst(n - 1, els, vp),
                resolveAgainst(els[n], vp, ViewportRect(vp), Null))

estimatedElements(els, vp) ==
    (CHOOSE it \in {estimateFirst(Len(a[1]), a[1], a[2]) : a \in {<<els, vp>>}} : TRUE)

-----------------------------------------------------------------------------
(* Array.prototype.sort *)

\* The comparators of this program return a difference of areas, which is NaN when an
\* area is NaN (an infinite width times a zero height); sort reads a NaN result as 0.
\* Such a comparator is not a consistent order (one area is "equal" to two areas that
\* differ), and ECMAScript leaves the order sort gives with it to the engine.  This is
\* the sort of V8 (node, Chrome) on an array of fewer than 64 elements: the run the
\* array starts with is found, reversed when it descends, and the elements after it are
\* inserted into it by binary search.  With a consistent comparator the result is the
\* stable sort every engine gives.
\*
\* The array is held as the positions its elements had before the sort; order[i][j] is
\* the sign of the comparator's result on the elements once at positions i and j.

RECURSIVE Iota(_)
Iota(n) == IF n = 0 THEN <<>> ELSE Append(Iota(n - 1), n)

RECURSIVE Reverse(_)
Reverse(seq) == IF seq = <<>> THEN <<>> ELSE Append(Reverse(Tail(seq)), Head(seq))

\* the loop of CountAndMakeRun: idx is the next position to compare with the one
\* before it; the result is the length of the run
RECURSIVE runLength(_, _, _, _)
runLength(idx, n, order, isDescending) ==
    IF idx > n THEN n
    ELSE IF isDescending /\ order[idx][idx - 1] >= 0 THEN idx - 1
    ELSE IF ~isDescending /\ order[idx][idx - 1] < 0 THEN idx - 1
    ELSE runLength(idx + 1, n, order, isDescending)

\* the length of the run an unsorted array of n >= 2 elements starts with; the run
\* descends when the second element sorts before the first
CountAndMakeRun(n, order) == runLength(3, n, order, order[2][1] < 0)

\* the array after CountAndMakeRun: a descending run is reversed in place
madeRun(n, order, run) ==
    IF order[2][1] < 0 THEN Reverse(Iota(run)) \o SubSeq(Iota(n), run + 1, n) ELSE Iota(n)

\* the binary search of BinaryInsertionSort: the pivot goes before a[mid] when it sorts
\* before it and after it otherwise; left and right count from 0
RECURSIVE insertionPoint(_, _, _, _, _)
insertionPoint(a, pivot, left, right, order) ==
    IF left >= right THEN left
    ELSE IF order[pivot][a[left + (right - left) \div 2 + 1]] < 0
    THEN insertionPoint(a, pivot, left, left + (right - left) \div 2, order)
    ELSE insertionPoint(a, pivot, left + (right - left) \div 2 + 1, right, order)

\* the elements from position start on are inserted, one by one, into the sorted
\* elements before them
RECURSIVE BinaryInsertionSort(_, _, _)
BinaryInsertionSort(a, start, order) ==
    IF start > Len(a) THEN a
    ELSE (CHOOSE it \in
             {BinaryInsertionSort(
                  SubSeq(a, 1, left) \o <<a[start]>> \o SubSeq(a, left + 1, start - 1)
                  \o SubSeq(a, start + 1, Len(a)),
                  start + 1, order)
                : left \in {insertionPoint(a, a[start], 0, start - 1, order)}} : TRUE)

\* the sorted array, as positions of the unsorted one
ArrayTimSort(n, order) ==
    IF n < 2 THEN Iota(n)
    ELSE (CHOOSE it \in
             {BinaryInsertionSort(madeRun(n, order, run), run + 1, order)
                : run \in {CountAndMakeRun(n, order)}} : TRUE)

\* the elements of seq in the order of the positions
RECURSIVE permuted(_, _)
permuted(seq, positions) ==
    IF positions = <<>> THEN <<>>
    ELSE <<seq[Head(positions)]>> \o permuted(seq, Tail(positions))

-----------------------------------------------------------------------------
(* Pass 2: parenting by centre-point containment *)

centerX(rt) == Add(rt.x, Div(rt.width, Two))
centerY(rt) == Add(rt.y, Div(rt.height, Two))

containsPoint_OpenBounds(cx, cy, pRect) ==
    /\ Less(pRect.x, cx)
    /\ Less(cx, Add(pRect.x, pRect.width))
    /\ Less(pRect.y, cy)
    /\ Less(cy, Add(pRect.y, pRect.height))

containsPoint(cx, cy, pRect) ==
    /\ Leq(pRect.x, cx)
    /\ Leq(cx, Add(pRect.x, pRect.width))
    /\ Leq(pRect.y, cy)
    /\ Leq(cy, Add(pRect.y, pRect.height))

isCandidate_NoContainerCheck(p, child) ==
    /\ p.id # child.id
    /\ containsPoint(centerX(child.runtime[1]), centerY(child.runtime[1]), p.runtime[1])

isCandidate_NoSelfCheck(p, child) ==
    /\ p.layout.isContainer # Some(FALSE)
    /\ containsPoint(centerX(child.runtime[1]), centerY(child.runtime[1]), p.runtime[1])

\* the filter predicate of potentialParents
isCandidate(p, child) ==
    /\ p.id # child.id
    /\ p.layout.isContainer # Some(FALSE)
    /\ containsPoint(centerX(child.runtime[1]), centerY(child.runtime[1]), p.runtime[1])

area(rt) == Mul(rt.width, rt.height)

compareParents_ZAscending(a, b) ==
    LET zDiff == OrZero(a.layout.zIndex) - OrZero(b.layout.zIndex)
    IN  IF zDiff # 0 THEN (IF zDiff < 0 THEN -1 ELSE 1)
        ELSE Sign(Sub(area(a.runtime[1]), area(b.runtime[1])))

\* the comparator of potentialParents.sort, as the sign of its return value, 0 for NaN
compareParents(a, b) ==
    LET zDiff == OrZero(b.layout.zIndex) - OrZero(a.layout.zIndex)
    IN  IF zDiff # 0 THEN (IF zDiff < 0 THEN -1 ELSE 1)
        ELSE Sign(Sub(area(a.runtime[1]), area(b.runtime[1])))

\* potentialParents.sort(compareParents)
sortParents(seq) ==
    (CHOOSE it \in
        {permuted(s, ArrayTimSort(Len(s),
                      [i \in 1..Len(s) |-> [j \in 1..Len(s) |-> compareParents(s[i], s[j])]]))
           : s \in {seq}} : TRUE)

potentialParents(child, est) ==
    sortParents(SelectSeq(est, LAMBDA p : isCandidate(p, child)))

assignParent(child, est) ==
    (CHOOSE it \in
        {IF pp # <<>>
         THEN [child EXCEPT !.runtime = Some([child.runtime[1] EXCEPT !.parentId = pp[1].id])]
         ELSE child
           : pp \in {potentialParents(child, est)}} : TRUE)

\* estimatedElements.map(...) over the first n elements
RECURSIVE assignFirst(_, _)
assignFirst(n, est) ==
    IF n = 0 THEN <<>> ELSE Append(assignFirst(n - 1, est), assignParent(est[n], est))

withParentsOf(est) == (CHOOSE it \in {assignFirst(Len(e), e) : e \in {est}} : TRUE)


-----------------------------------------------------------------------------
(* Pass 3: memoized recursive resolution with the cycle guard *)

InSeq_DirectCallerOnly(id, stack) == stack # <<>> /\ stack[Len(stack)] = id

\* stack.includes(id)
InSeq(id, stack) == \E i \in 1..Len(stack) : stack[i] = id

\* finalMap is a function from ids to elements; Map.set
MapSet(map, id, el) == [k \in (DOMAIN map) \cup {id} |-> IF k = id THEN el ELSE map[k]]
EmptyMap == [k \in {} |-> Absent]

parentRectFrom_AlwaysViewport(parentEl, vp) == ViewportRect(vp)

\* the reference rectangle calculateElement takes from the element its recursive call returned
parentRectFrom(parentEl, vp) ==
    IF parentEl # Absent /\ parentEl[1].runtime # Absent
    THEN Rect(parentEl[1].runtime[1].x, parentEl[1].runtime[1].y,
              parentEl[1].runtime[1].width, parentEl[1].runtime[1].height)
    ELSE ViewportRect(vp)

\* the body of calculateElement after the recursive call returned parentEl
computeFinal(el, parentEl, vp) ==
    resolveAgainst(el, vp, parentRectFrom(parentEl, vp), el.runtime[1].parentId)

\* calculateElement(id, stack) on the cache `map`: the element returned and the cache afterwards
RECURSIVE calculateElement(_, _, _, _, _)
calculateElement(id, stack, map, wp, vp) ==
    CHOOSE it \in
        {IF a[1] \in DOMAIN a[3] THEN [res |-> a[3][a[1]], map |-> a[3]]
         ELSE IF InSeq(a[1], a[2]) THEN [res |-> Find(wp, a[1]), map |-> a[3]]
         ELSE CHOOSE done \in
                {CHOOSE returned \in
                    {CHOOSE stored \in
                        {[res |-> res, map |-> MapSet(sub.map, a[1], res)] :
                         res \in {computeFinal(el, IF Truthy(el.runtime[1].parentId)
                                                   THEN Some(sub.res) ELSE Absent, vp)}} : TRUE :
                     sub \in {IF Truthy(el.runtime[1].parentId)
                              THEN calculateElement(el.runtime[1].parentId, Append(a[2], a[1]),
                                                    a[3], wp, vp)
                              ELSE [res |-> el, map |-> a[3]]}} : TRUE :
                 el \in {Find(wp, a[1])}} : TRUE :
         a \in {<<id, stack, map>>}} : TRUE

\* withParents.forEach(el => calculateElement(el.id)) over the first n elements
RECURSIVE resolveAll(_, _, _)
resolveAll(n, wp, vp) ==
    IF n = 0 THEN EmptyMap
    ELSE calculateElement(wp[n].id, <<>>, resolveAll(n - 1, wp, vp), wp, vp).map

RECURSIVE collectFirst_Reversed(_, _, _)
collectFirst_Reversed(n, els, fm) ==
    IF n = 0 THEN <<>>
    ELSE <<fm[els[n].id]>> \o collectFirst_Reversed(n - 1, els, fm)

\* elements.map(el => finalMap.get(el.id)) over the first n elements
RECURSIVE collectFirst(_, _, _)
collectFirst(n, els, fm) ==
    IF n = 0 THEN <<>> ELSE Append(collectFirst(n - 1, els, fm), fm[els[n].id])

calculateRuntimePositions(els, vp) ==
    CHOOSE it \in
        {CHOOSE final \in
            {collectFirst(Len(a[1]), a[1], resolveAll(Len(wp), wp, a[2])) :
             wp \in {withParentsOf(estimatedElements(a[1], a[2]))}} : TRUE :
         a \in {<<els, vp>>}} : TRUE

\* JavaScript's undefined, as a parent id
Undefined == "<undefined>"

\* the parent's size at the origin instead of the parent's rectangle
getParentRect_SizeOnly(parentId, els, vp) ==
    IF parentId \in {Null, Undefined, "", "root"} THEN ViewportRect(vp)
    ELSE IF Has(els, parentId) /\ Find(els, parentId).runtime # Absent
    THEN LET rt == Find(els, parentId).runtime[1] IN Rect(Zero, Zero, rt.width, rt.height)
    ELSE ViewportRect(vp)

\* getParentRect (used by the canvas and the property panel)
getParentRect(parentId, els, vp) ==
    IF parentId = Null \/ parentId = Undefined \/ parentId = "" \/ parentId = "root"
    THEN ViewportRect(vp)
    ELSE IF Has(els, parentId) /\ Find(els, parentId).runtime # Absent
    THEN LET rt == Find(els, parentId).runtime[1] IN Rect(rt.x, rt.y, rt.width, rt.height)
    ELSE ViewportRect(vp)


-----------------------------------------------------------------------------
(* Values of the variables a specification does not use *)

ConvIdle == [op |-> "idle"]
NoViewport == Viewport(Zero, Zero)

ConvUnused == conv = ConvIdle
EngineUnused == elements = <<>> /\ viewport = NoViewport /\ output = Absent
ResolveUnused ==
    withParents = <<>> /\ finalMap = EmptyMap /\ frames = <<>> /\ cursor = 0 /\ resolved = <<>>

EditorUnused ==
    /\ selectedId = Null /\ dragState = Absent /\ tempRect = Absent
    /\ effectPending = FALSE /\ mode = "editor" /\ opCount = 0

convVars == <<conv>>
engineVars == <<elements, viewport, output>>
resolveVars == <<withParents, finalMap, frames, cursor, resolved>>
editorVars == <<selectedId, dragState, tempRect, effectPending, mode, opCount>>

-----------------------------------------------------------------------------
(* SpecConv: one round trip through the anchor transform, inputs from bounded sets *)

\* 0.1, 7 and 57 are magnitudes whose percent conversions round (0.1 + 0.2, 7/100 * 300,
\* 57/100 * 100 in binary64)
ConvNums == {Num(-15), Zero, Num(10), Num(100), <<25, 2>>, Div(Num(1), Num(10)), Num(7), Num(57)}
ConvSizes == {Zero, Num(50)}
ConvViewports == {Viewport(Num(1280), Num(800)), Viewport(Zero, Num(600)), Viewport(Num(375), Zero)}
ConvParentRects ==
    {Rect(Zero, Zero, Num(640), Num(400)),
     Rect(Num(20), Num(30), Num(300), Zero),
     Rect(Num(5), Num(-5), Zero, Num(200))}
AnchorsOf(axis) == IF axis = "x" THEN AnchorX ELSE AnchorY

ConvInputs ==
    UNION {
        {[op |-> "input", num |-> n, anchor |-> a, axis |-> ax, size |-> sz, unit |-> u,
          vp |-> vp, parentRect |-> pr, mid |-> Zero, back |-> Zero] :
            n \in ConvNums, a \in AnchorsOf(ax), sz \in ConvSizes, u \in UnitType,
            vp \in ConvViewports, pr \in ConvParentRects} :
        ax \in {"x", "y"}}

InitConv == conv \in ConvInputs /\ EngineUnused /\ ResolveUnused /\ EditorUnused

\* convertOffsetToAbsolute applied to the magnitude convertAbsoluteToOffset returns
ForwardOfInverse ==
    /\ conv.op = "input"
    /\ LET off == convertAbsoluteToOffset(conv.num, conv.anchor, conv.axis, conv.size,
                                          conv.unit, conv.vp, conv.parentRect)
           abs == convertOffsetToAbsolute(LayoutValue(off, conv.unit), conv.anchor, conv.axis,
                                          conv.size, conv.vp, conv.parentRect)
       IN  conv' = [conv EXCEPT !.op = "forward_of_inverse", !.mid = off, !.back = abs]
    /\ UNCHANGED <<engineVars, resolveVars, editorVars>>

\* convertAbsoluteToOffset applied to the coordinate convertOffsetToAbsolute returns
InverseOfForward ==
    /\ conv.op = "input"
    /\ LET abs == convertOffsetToAbsolute(LayoutValue(conv.num, conv.unit), conv.anchor,
                                          conv.axis, conv.size, conv.vp, conv.parentRect)
           off == convertAbsoluteToOffset(abs, conv.anchor, conv.axis, conv.size,
                                          conv.unit, conv.vp, conv.parentRect)
       IN  conv' = [conv EXCEPT !.op = "inverse_of_forward", !.mid = abs, !.back = off]
    /\ UNCHANGED <<engineVars, resolveVars, editorVars>>

\* toPixels on the magnitude
ToPixels ==
    /\ conv.op = "input"
    /\ conv' = [conv EXCEPT !.op = "to_pixels",
                            !.mid = toPixels(LayoutValue(conv.num, conv.unit), conv.vp,
                                             conv.parentRect)]
    /\ UNCHANGED <<engineVars, resolveVars, editorVars>>

\* fromPixels on the pixel length
FromPixels ==
    /\ conv.op = "input"
    /\ conv' = [conv EXCEPT !.op = "from_pixels",
                            !.mid = fromPixels(conv.num, conv.unit, conv.vp, conv.parentRect)]
    /\ UNCHANGED <<engineVars, resolveVars, editorVars>>

NextConv == ForwardOfInverse \/ InverseOfForward \/ ToPixels \/ FromPixels

SpecConv == InitConv /\ [][NextConv]_vars

\* the dimension a unit divides by: 0 makes the percent conversions collapse to 0
refDimension(unit, vp, parentRect) ==
    CASE unit = PERCENT_PARENT_W -> parentRect.width
      [] unit = PERCENT_PARENT_H -> parentRect.height
      [] unit = VW -> vp.width
      [] unit = VH -> vp.height
      [] OTHER -> Num(1)

ConvRefNonZero == refDimension(conv.unit, conv.vp, conv.parentRect) # Zero

\* |a|
Magnitude(a) == IF Less(a, Zero) THEN Neg(a) ELSE a

\* the largest magnitude among the numbers of a sequence
RECURSIVE LargestMagnitude(_)
LargestMagnitude(seq) ==
    IF seq = <<>> THEN Zero
    ELSE LET rest == LargestMagnitude(Tail(seq))
             first == Magnitude(Head(seq))
         IN  IF Leq(rest, first) THEN first ELSE rest

\* 2^-46: 64 units in the last place of a binary64 number in [1, 2)
RoundingSlack == Div(Div(Div(Num(1), Num(65536)), Num(65536)), Num(16384))

\* a and b differ by no more than the rounding of a few operations on numbers as large
\* as scale
Near(a, b, scale) == Leq(Magnitude(Sub(a, b)), Mul(RoundingSlack, scale))

\* the reference rectangle of the round trip, and the largest magnitude among the
\* reference's origin and size on the axis and the element's size
ConvRefRect == refRectOf(conv.unit, conv.vp, conv.parentRect)
ConvFrame == <<originOf(ConvRefRect, conv.axis), extentOf(ConvRefRect, conv.axis), conv.size>>

\* C1 as stated: Forward(Inverse(x)) = x for every input, zero-sized references included
C1_ForwardInverseAlways ==
    conv.op = "forward_of_inverse" => conv.back = conv.num

\* C1 (amended): whenever the reference dimension the unit divides by (parent
\* width/height, viewport width/height) is not 0, Forward(Inverse(x)) is x up to rounding,
\* for every anchor, axis, unit and size: the two differ by at most 2^-46 times the
\* largest magnitude among x, the element's size and the reference's origin and size
C1_ForwardInverseNonZeroRef ==
    (conv.op = "forward_of_inverse" /\ ConvRefNonZero)
        => Near(conv.back, conv.num, LargestMagnitude(<<conv.num>> \o ConvFrame))

\* an end-anchored percentage whose round trip does not return the very double it was
\* given
C1_Witness ==
    /\ conv.op = "forward_of_inverse"
    /\ conv.unit = PERCENT_PARENT_W /\ conv.anchor = "right" /\ conv.size # Zero
    /\ ConvRefNonZero
    /\ conv.mid # conv.num
    /\ conv.back # conv.num
    /\ Near(conv.back, conv.num, LargestMagnitude(<<conv.num>> \o ConvFrame))

\* C2 as stated: Inverse(Forward(v)) = v for every input, zero-sized references included
C2_InverseForwardAlways ==
    conv.op = "inverse_of_forward" => conv.back = conv.num

\* the length in pixels of a magnitude in the unit of the round trip
ConvPixels(v) == toPixels(LayoutValue(v, conv.unit), conv.vp, conv.parentRect)

\* the magnitude returned is v up to rounding: the difference, as a length in pixels, is
\* at most 2^-46 times the largest magnitude among the length of v in pixels, the
\* element's size and the reference's origin and size
ConvBackNearNum ==
    Leq(Magnitude(ConvPixels(Sub(conv.back, conv.num))),
        Mul(RoundingSlack, LargestMagnitude(<<ConvPixels(conv.num)>> \o ConvFrame)))

\* C2 (amended): whenever the reference dimension the unit multiplies by is not 0,
\* Inverse(Forward(v)) is v up to rounding, for every anchor, axis, unit and size
C2_InverseForwardNonZeroRef ==
    (conv.op = "inverse_of_forward" /\ ConvRefNonZero) => ConvBackNearNum

\* a centred magnitude in vh whose round trip does not return the very double it was
\* given
C2_Witness ==
    /\ conv.op = "inverse_of_forward"
    /\ conv.unit = VH /\ conv.anchor = "center" /\ conv.size # Zero
    /\ ConvRefNonZero
    /\ conv.mid # conv.num
    /\ conv.back # conv.num
    /\ ConvBackNearNum


\* C14 as stated: the unit resolver returns a non-negative length for every magnitude
C14_LengthAlwaysNonNegative ==
    conv.op = "to_pixels" => Leq(Zero, conv.mid)

\* C14 (amended): the unit resolver returns a non-negative length for every
\* non-negative magnitude, whatever the unit, against a viewport and a reference
\* rectangle of non-negative width and height; a negative magnitude resolves to a
\* negative length
C14_LengthNonNegativeForNonNegativeMagnitude ==
    /\ (conv.op = "to_pixels" /\ Leq(Zero, conv.num)
            /\ Leq(Zero, conv.vp.width) /\ Leq(Zero, conv.vp.height)
            /\ Leq(Zero, conv.parentRect.width) /\ Leq(Zero, conv.parentRect.height))
         => Leq(Zero, conv.mid)
    /\ (conv.op = "to_pixels" /\ Less(conv.num, Zero) /\ ConvRefNonZero)
         => Less(conv.mid, Zero)

\* a positive percentage of the parent's height, against a parent whose origin is negative
C14_Witness ==
    /\ conv.op = "to_pixels"
    /\ conv.unit = PERCENT_PARENT_H /\ Less(Zero, conv.num)
    /\ Less(conv.parentRect.y, Zero) /\ Less(Zero, conv.parentRect.height)
    /\ Less(Zero, conv.mid) /\ conv.mid # conv.num

\* the reference formula of convertOffsetToAbsolute: L, the resolved length, magnitude/100
\* times the dimension
ReferenceLength(v, unit, vp, parentRect) ==
    CASE unit = PX -> v
      [] unit = PERCENT_PARENT_W -> Mul(Div(v, Hundred), parentRect.width)
      [] unit = PERCENT_PARENT_H -> Mul(Div(v, Hundred), parentRect.height)
      [] unit = VW -> Mul(Div(v, Hundred), vp.width)
      [] unit = VH -> Mul(Div(v, Hundred), vp.height)

\* R.origin and R.size on the axis: the viewport at (0,0) for vw and vh, the parent
\* rectangle otherwise
ReferenceOrigin(unit, axis, parentRect) ==
    IF unit \in {VW, VH} THEN Zero
    ELSE IF axis = "x" THEN parentRect.x ELSE parentRect.y

ReferenceSize(unit, axis, vp, parentRect) ==
    IF unit \in {VW, VH} THEN (IF axis = "x" THEN vp.width ELSE vp.height)
    ELSE IF axis = "x" THEN parentRect.width ELSE parentRect.height

ReferenceAbsolute(v, unit, anchor, axis, size, vp, parentRect) ==
    LET L == ReferenceLength(v, unit, vp, parentRect)
        o == ReferenceOrigin(unit, axis, parentRect)
        d == ReferenceSize(unit, axis, vp, parentRect)
    IN  CASE anchor \in {"left", "top"} -> Add(o, L)
          [] anchor \in {"right", "bottom"} -> Sub(Sub(Add(o, d), L), size)
          [] anchor = "center" -> Sub(Add(Add(o, Div(d, Two)), L), Div(size, Two))

\* C15: convertOffsetToAbsolute equals the reference formula: R.origin + L for a start
\* anchor, R.origin + R.size - L - S for an end anchor, R.origin + R.size/2 + L - S/2
\* for a centre anchor, with R the viewport at the origin for vw and vh and the parent
\* rectangle otherwise; each formula is evaluated from left to right in binary64
C15_ForwardEqualsReference ==
    conv.op = "inverse_of_forward" =>
        conv.mid = ReferenceAbsolute(conv.num, conv.unit, conv.anchor, conv.axis, conv.size,
                                     conv.vp, conv.parentRect)

\* a viewport unit, end-anchored, under a parent that is not at the origin
C15_Witness ==
    /\ conv.op = "inverse_of_forward"
    /\ conv.unit = VW /\ conv.anchor = "right" /\ conv.axis = "x"
    /\ conv.parentRect.x # Zero /\ conv.size # Zero /\ conv.vp.width # Zero
    /\ Less(Zero, conv.num)
    /\ conv.mid = Sub(Sub(conv.vp.width, Mul(Div(conv.num, Hundred), conv.vp.width)), conv.size)

\* a finite number: neither NaN nor an infinity
IsNumber(a) == IsFinite(a)

\* C16: with a reference dimension of 0, toPixels yields 0 and fromPixels and
\* convertAbsoluteToOffset yield magnitude 0 for every pixel input; and every
\* conversion result is a number
C16_ZeroReferenceYieldsZero ==
    /\ IsNumber(conv.mid) /\ IsNumber(conv.back)
    /\ (conv.op \in {"to_pixels", "from_pixels", "forward_of_inverse"} /\ ~ConvRefNonZero)
         => conv.mid = Zero

\* fromPixels of a non-zero pixel length in percent of a parent of width 0
C16_Witness ==
    /\ conv.op = "from_pixels"
    /\ conv.unit = PERCENT_PARENT_W /\ conv.parentRect.width = Zero
    /\ conv.num # Zero /\ conv.mid = Zero


-----------------------------------------------------------------------------
(* SpecLayout: calculateRuntimePositions on element lists drawn from a palette *)

MaxElems == 3

Ids == [i \in 1..(MaxElems + 2) |-> CASE i = 1 -> "e1" [] i = 2 -> "e2" [] i = 3 -> "e3"
                                      [] i = 4 -> "e4" [] i = 5 -> "e5" [] OTHER -> "e6"]

Px(n) == LayoutValue(Num(n), PX)
Pct(n, u) == LayoutValue(Num(n), u)

\* left/top anchored layout in pixels
PxBox(x, y, w, h, z, c) == LayoutConfig(Px(x), Px(y), Px(w), Px(h), z, "left", "top", c)

Palette ==
    { \* container of half the parent's size at the origin (spec Scenario A's C)
      LayoutConfig(Px(0), Px(0), Pct(50, PERCENT_PARENT_W), Pct(50, PERCENT_PARENT_H),
                   Some(1), "left", "top", Absent),
      \* Scenario A's D
      PxBox(10, 10, 50, 50, Some(2), Some(TRUE)),
      \* covers the viewport, not a container
      LayoutConfig(Px(0), Px(0), Pct(100, VW), Pct(100, VH), Some(5), "left", "top", Some(FALSE)),
      \* covers the viewport, container, no z-order, no anchors
      LayoutConfig(Px(0), Px(0), Pct(100, VW), Pct(100, VH), Absent, "", "", Absent),
      \* same size and z-order as the first, centred horizontally
      LayoutConfig(Px(0), Px(0), Pct(50, PERCENT_PARENT_W), Pct(50, PERCENT_PARENT_H),
                   Some(1), "center", "top", Some(TRUE)),
      \* anchored to the right and bottom edges, percent offsets
      LayoutConfig(Pct(10, PERCENT_PARENT_W), Pct(10, PERCENT_PARENT_H),
                   Pct(20, PERCENT_PARENT_W), Pct(20, PERCENT_PARENT_H),
                   Some(3), "right", "bottom", Absent),
      PxBox(60, 10, 50, 30, Some(2), Absent),
      PxBox(70, 15, 10, 10, Some(3), Absent),
      \* large containers below and beside the others in z-order
      PxBox(-10, -10, 300, 300, Some(1), Absent),
      PxBox(-20, -20, 400, 400, Some(-1), Absent),
      \* a wide, flat container across the middle
      PxBox(60, 46, 80, 8, Some(4), Absent) }

EngineViewports == {Viewport(Num(200), Num(100))}

\* a container 57vh wide, which is 56.99999999999999 in binary64 under a viewport 100
\* high, and a box whose centre is at x = 57
RoundedEdgeList ==
    << Element("e1", LayoutConfig(Px(0), Px(0), Pct(57, VH), Px(100), Some(1), "left", "top",
                                  Absent)),
       Element("e2", PxBox(52, 10, 10, 10, Some(2), Absent)) >>

\* 3 * 2^1022 = 1.348269851146737e308, a number the panel's input takes; as a width in
\* vw under a viewport 200 wide, (value / 100) * 200 is beyond the largest number and
\* the width is Infinity
Huge == <<1, 2097, 3>>

\* a container at the origin of infinite width and height 0: its area, Infinity * 0, is
\* NaN
InfiniteFlat(z) ==
    LayoutConfig(Px(0), Px(0), LayoutValue(Huge, VW), Px(0), Some(z), "left", "top", Absent)

\* three containers at the origin with one z-order, the second of area NaN, and a point
\* at the origin below them
NaNAreaList ==
    << Element("e1", PxBox(0, 0, 50, 50, Some(1), Absent)),
       Element("e2", InfiniteFlat(1)),
       Element("e3", PxBox(0, 0, 30, 30, Some(1), Absent)),
       Element("e4", PxBox(0, 0, 0, 0, Some(0), Absent)) >>

\* the same with two containers 30 by 30
NaNAreaTieList ==
    << Element("e1", PxBox(0, 0, 50, 50, Some(1), Absent)),
       Element("e2", InfiniteFlat(1)),
       Element("e3", PxBox(0, 0, 30, 30, Some(1), Absent)),
       Element("e4", PxBox(0, 0, 30, 30, Some(1), Absent)),
       Element("e5", PxBox(0, 0, 0, 0, Some(0), Absent)) >>

\* the container of area NaN shares the top z-order with a later one; a smaller
\* container of lower z-order comes first
NaNAreaTopList ==
    << Element("e1", PxBox(0, 0, 30, 30, Some(1), Absent)),
       Element("e2", InfiniteFlat(2)),
       Element("e3", PxBox(0, 0, 50, 50, Some(2), Absent)),
       Element("e4", PxBox(0, 0, 0, 0, Some(0), Absent)) >>

\* every list of at most MaxElems palette layouts, and the lists above; ids are unique,
\* by position
ElementLists ==
    UNION {
        {[i \in 1..n |-> Element(Ids[i], f[i])] : f \in [1..n -> Palette]} :
        n \in 0..MaxElems}
    \cup {RoundedEdgeList, NaNAreaList, NaNAreaTieList, NaNAreaTopList}

InitLayout ==
    /\ elements \in ElementLists
    /\ viewport \in EngineViewports
    /\ output = Absent
    /\ ConvUnused /\ ResolveUnused /\ EditorUnused

\* one call of calculateRuntimePositions; its Pass-2 list is kept beside the result
Calculate ==
    /\ output = Absent
    /\ withParents' = withParentsOf(estimatedElements(elements, viewport))
    /\ output' = Some(calculateRuntimePositions(elements, viewport))
    /\ UNCHANGED <<editorVars, conv, elements, viewport, finalMap, frames, cursor, resolved>>

NextLayout == Calculate

SpecLayout == InitLayout /\ [][NextLayout]_vars


-----------------------------------------------------------------------------
(* Properties of the parent assignment (SpecLayout) *)

Done == output # Absent
Out == output[1]

\* the box of RoundedEdgeList is a root: its centre is beyond the container's rounded
\* right edge
RoundedEdgeExcludesCentre ==
    (Done /\ elements = RoundedEdgeList) =>
        /\ Less(Out[1].runtime[1].width, centerX(Out[2].runtime[1]))
        /\ centerX(Out[2].runtime[1]) = Num(57)
        /\ Out[2].runtime[1].parentId = Null
N == Len(elements)
\* the Pass-1 (viewport-parented) rectangle of element i, as Pass 2 saw it
EstRect(i) ==
    LET rt == withParents[i].runtime[1] IN Rect(rt.x, rt.y, rt.width, rt.height)

ParentIdOf(i) == Out[i].runtime[1].parentId
\* the position of element i's parent in the list, 0 for none
ParentIndex(i) ==
    IF \E j \in 1..N : elements[j].id = ParentIdOf(i)
    THEN CHOOSE j \in 1..N : elements[j].id = ParentIdOf(i)
    ELSE 0

\* element i's Pass-1 centre lies in element j's Pass-1 rectangle, edges included
CenterInside(i, j) ==
    LET cx == Add(EstRect(i).x, Div(EstRect(i).width, Two))
        cy == Add(EstRect(i).y, Div(EstRect(i).height, Two))
        r == EstRect(j)
    IN  /\ Leq(r.x, cx) /\ Leq(cx, Add(r.x, r.width))
        /\ Leq(r.y, cy) /\ Leq(cy, Add(r.y, r.height))

\* element i's Pass-1 centre lies on the boundary of element j's Pass-1 rectangle
CenterOnEdge(i, j) ==
    LET cx == Add(EstRect(i).x, Div(EstRect(i).width, Two))
        cy == Add(EstRect(i).y, Div(EstRect(i).height, Two))
        r == EstRect(j)
    IN  /\ CenterInside(i, j)
        /\ \/ cx = r.x \/ cx = Add(r.x, r.width) \/ cy = r.y \/ cy = Add(r.y, r.height)

IsContainerAt(j) == elements[j].layout.isContainer # Some(FALSE)
ZAt(j) == IF elements[j].layout.zIndex = Absent THEN 0 ELSE elements[j].layout.zIndex[1]
AreaAt(j) == Mul(EstRect(j).width, EstRect(j).height)

Candidates(i) == {j \in 1..N : j # i /\ IsContainerAt(j) /\ CenterInside(i, j)}
TopZ(i) == {j \in Candidates(i) : \A k \in Candidates(i) : ZAt(k) <= ZAt(j)}
\* the candidates of top z-order than which none of them has a smaller area
Tightest(i) == {j \in TopZ(i) : \A k \in TopZ(i) : ~Less(AreaAt(k), AreaAt(j))}
\* no candidate of element i has an area of NaN
AreasAreNumbers(i) == \A k \in Candidates(i) : AreaAt(k) # NaN

\* the k-th ancestor of element i along parentId links, 0 once the root is reached
RECURSIVE Ancestor(_, _)
Ancestor(i, k) ==
    IF k = 0 THEN i
    ELSE IF Ancestor(i, k - 1) = 0 THEN 0
    ELSE ParentIndex(Ancestor(i, k - 1))

OnCycle(i) == \E k \in 1..N : Ancestor(i, k) = i

\* C4 as stated: following parentId links from any element reaches null without
\* visiting an element twice
C4_NoParentCycle ==
    Done => \A i \in 1..N : ~OnCycle(i) /\ Ancestor(i, N) = 0

\* C4 (amended): every parentId link leads from an element to a different element that
\* is a container and whose Pass-1 rectangle holds the element's Pass-1 centre; so no
\* element is its own parent, while cycles of two or more such containers do occur
C4_ParentLinksOnlyToEnclosingContainers ==
    Done => \A i \in 1..N :
        ParentIdOf(i) # Null =>
            /\ ParentIndex(i) # 0
            /\ ParentIndex(i) # i
            /\ IsContainerAt(ParentIndex(i))
            /\ CenterInside(i, ParentIndex(i))

\* three elements that are each other's ancestors in a ring
C4_Witness ==
    /\ Done /\ N = 3
    /\ \A i \in 1..N : Ancestor(i, 3) = i /\ Ancestor(i, 1) # i /\ Ancestor(i, 2) # i

\* C6: parentId is null exactly when no other container's Pass-1 rectangle holds the
\* element's Pass-1 centre, closed bounds on all four edges
C6_RootIffNoCandidate ==
    Done => \A i \in 1..N : (ParentIdOf(i) = Null) <=> (Candidates(i) = {})

\* one element is parented through a centre lying exactly on its only candidate's edge,
\* another has no candidate and is a root
C6_Witness ==
    /\ Done
    /\ \E i \in 1..N : \E j \in 1..N :
          Candidates(i) = {j} /\ CenterOnEdge(i, j) /\ ParentIdOf(i) = elements[j].id
    /\ \E i \in 1..N : Candidates(i) = {} /\ ParentIdOf(i) = Null

\* C7: the chosen parent has the highest z-order among the candidates (absent = 0)
C7_ParentHasTopZ ==
    Done => \A i \in 1..N : Candidates(i) # {} => ParentIndex(i) \in TopZ(i)

\* the winner is larger and later in the list than a losing candidate of lower z-order,
\* and one candidate has no z-order at all
C7_Witness ==
    /\ Done
    /\ \E i \in 1..N : \E j \in Candidates(i) : \E k \in Candidates(i) :
          /\ ParentIndex(i) = j
          /\ ZAt(k) < ZAt(j) /\ Less(AreaAt(k), AreaAt(j)) /\ k < j
          /\ elements[k].layout.zIndex = Absent

\* the winner's area is NaN and a loser of lower z-order is first in the list
TopZWinsWithNaNArea ==
    /\ Done
    /\ \E i \in 1..N : \E j \in Candidates(i) : \E k \in Candidates(i) :
          ParentIndex(i) = j /\ ZAt(k) < ZAt(j) /\ AreaAt(j) = NaN /\ k < j

\* C8: among the candidates of highest z-order the chosen parent has the smallest area
C8_ParentIsTightest ==
    Done => \A i \in 1..N : Candidates(i) # {} => ParentIndex(i) \in Tightest(i)

\* the same where no candidate's area is NaN
ParentIsTightestAmongNumbers ==
    Done => \A i \in 1..N :
        (Candidates(i) # {} /\ AreasAreNumbers(i)) => ParentIndex(i) \in Tightest(i)

\* two candidates share the top z-order, the smaller one wins although it is later
SmallerLaterWins ==
    /\ Done
    /\ \E i \in 1..N : \E j \in TopZ(i) : \E k \in TopZ(i) :
          ParentIndex(i) = j /\ Less(AreaAt(j), AreaAt(k)) /\ k < j

\* the chosen parent is larger than another candidate of the same, top z-order; a third
\* one's area is NaN
LargerWinsBesideNaN ==
    /\ Done
    /\ \E i \in 1..N : \E j \in TopZ(i) : \E k \in TopZ(i) : \E l \in TopZ(i) :
          ParentIndex(i) = j /\ Less(AreaAt(k), AreaAt(j)) /\ AreaAt(l) = NaN

\* candidate j does not sort after candidate k: the sort's comparator on (j, k) is
\* negative or 0, a NaN difference of areas being read as 0
NotAfter(j, k) ==
    \/ ZAt(j) > ZAt(k)
    \/ ZAt(j) = ZAt(k) /\ ~Less(AreaAt(k), AreaAt(j))

\* candidates j and k tie on z-order and area
Tied(j, k) == ZAt(j) = ZAt(k) /\ AreaAt(j) # NaN /\ AreaAt(j) = AreaAt(k)

\* C9: the order on the candidates is total (what does not sort after is transitive),
\* the chosen parent is first in it, and among candidates tied on z-order and area
\* for the first place the earliest in the list is chosen
C9_TieGoesToEarliest ==
    Done => \A i \in 1..N :
        Candidates(i) # {} =>
            /\ \A j \in Candidates(i) : \A k \in Candidates(i) : \A l \in Candidates(i) :
                  (NotAfter(j, k) /\ NotAfter(k, l)) => NotAfter(j, l)
            /\ \A k \in Candidates(i) : NotAfter(ParentIndex(i), k)
            /\ \A j \in Tightest(i) : \A k \in Tightest(i) :
                  (j # k /\ Tied(j, k)) => (ParentIndex(i) \in Tightest(i)
                                            /\ ParentIndex(i) <= j)

\* the same where no candidate's area is NaN
TieGoesToEarliestAmongNumbers ==
    Done => \A i \in 1..N :
        (Candidates(i) # {} /\ AreasAreNumbers(i)) =>
            /\ \A j \in Candidates(i) : \A k \in Candidates(i) : \A l \in Candidates(i) :
                  (NotAfter(j, k) /\ NotAfter(k, l)) => NotAfter(j, l)
            /\ \A k \in Candidates(i) : NotAfter(ParentIndex(i), k)
            /\ \A k \in Tightest(i) : ParentIndex(i) <= k

\* two candidates with different rectangles tie on z-order and area
TiedDifferentRects ==
    /\ Done
    /\ \E i \in 1..N : \E j \in Tightest(i) : \E k \in Tightest(i) :
          j < k /\ EstRect(j) # EstRect(k) /\ Tied(j, k) /\ ParentIndex(i) = j

\* two candidates tie on z-order and area, no candidate of that z-order is smaller, and
\* the chosen parent is a larger one
TiedPassedOver ==
    /\ Done
    /\ \E i \in 1..N : \E j \in Tightest(i) : \E k \in Tightest(i) :
          j # k /\ Tied(j, k) /\ Less(AreaAt(j), AreaAt(ParentIndex(i)))

\* C10: no parentId names an element with isContainer false, or the element itself
C10_NoNonContainerNoSelfParent ==
    Done => \A i \in 1..N : \A j \in 1..N :
        ParentIdOf(i) = elements[j].id => (IsContainerAt(j) /\ j # i)

\* an element whose centre lies in a non-container (and in itself) is parented elsewhere
C10_Witness ==
    /\ Done
    /\ \E i \in 1..N : \E j \in 1..N :
          /\ j # i /\ ~IsContainerAt(j) /\ CenterInside(i, j) /\ CenterInside(i, i)
          /\ ParentIdOf(i) # Null


-----------------------------------------------------------------------------
(* Properties of the whole result (SpecLayout) *)

\* C12: the result has the input's length and ids, in the input's order, and every
\* element of it carries a _runtime, members of a parent cycle included
C12_SameIdsAllResolved ==
    Done => /\ Len(Out) = N
            /\ \A i \in 1..N : Out[i].id = elements[i].id /\ Out[i].runtime # Absent

\* three elements, two of them each other's parent and the third outside the cycle
C12_Witness ==
    /\ Done /\ N = 3 /\ Len(Out) = 3
    /\ \E i, j \in 1..N : i # j /\ ParentIndex(i) = j /\ ParentIndex(j) = i
    /\ \E k \in 1..N : ~OnCycle(k)

\* the final rectangle of element j in the result
FinalRect(j) ==
    LET rt == Out[j].runtime[1] IN Rect(rt.x, rt.y, rt.width, rt.height)

\* element i's rectangle in the result is its LayoutConfig resolved against the
\* rectangle its parent has in the same result
ResolvedAgainstFinalParent(i) ==
    Out[i] = resolveAgainst(elements[i], viewport, FinalRect(ParentIndex(i)), ParentIdOf(i))

\* C13 as stated: every element with a parent is resolved against the parent's final
\* rectangle
C13_EveryChildAgainstFinalParent ==
    Done => \A i \in 1..N : ParentIdOf(i) # Null => ResolvedAgainstFinalParent(i)

\* C13 (amended): every element with a parent that is not on a parent cycle is resolved
\* against the parent's final rectangle; on a cycle the element whose parent was entered
\* first is resolved against that parent's Pass-1 estimate
C13_ChildOffCycleAgainstFinalParent ==
    Done => \A i \in 1..N :
        (ParentIdOf(i) # Null /\ ~OnCycle(i)) => ResolvedAgainstFinalParent(i)

\* a grandchild: its parent is itself nested, so the parent's final rectangle is not
\* the parent's Pass-1 estimate, and the grandchild's own final rectangle is not its estimate
C13_Witness ==
    /\ Done
    /\ \E i \in 1..N :
          /\ ParentIdOf(i) # Null /\ ~OnCycle(i)
          /\ ParentIdOf(ParentIndex(i)) # Null
          /\ FinalRect(ParentIndex(i)) # EstRect(ParentIndex(i))
          /\ FinalRect(i) # EstRect(i)


-----------------------------------------------------------------------------
(* SpecResolve: Pass 3 step by step, one action per call or return of            *)
(* calculateElement; `frames` is the JavaScript call stack, innermost call last  *)

ResolvePalette ==
    { LayoutConfig(Px(0), Px(0), Pct(50, PERCENT_PARENT_W), Pct(50, PERCENT_PARENT_H),
                   Some(1), "left", "top", Absent),
      LayoutConfig(Px(0), Px(0), Pct(50, PERCENT_PARENT_W), Pct(50, PERCENT_PARENT_H),
                   Some(1), "center", "top", Some(TRUE)),
      PxBox(60, 10, 50, 30, Some(2), Absent),
      PxBox(70, 15, 10, 10, Some(3), Some(FALSE)),
      PxBox(60, 46, 80, 8, Some(4), Absent),
      PxBox(98, 46, 28, 48, Some(4), Absent),
      PxBox(112, 30, 48, 40, Some(4), Absent) }

ResolveLists ==
    UNION {
        {[i \in 1..n |-> Element(Ids[i], f[i])] : f \in [1..n -> ResolvePalette]} :
        n \in 0..MaxElems}

\* the state when Pass 3 starts: Passes 1 and 2 have produced withParents
InitResolve ==
    /\ elements \in ResolveLists
    /\ viewport = Viewport(Num(200), Num(100))
    /\ output = Absent
    /\ withParents = withParentsOf(estimatedElements(elements, viewport))
    /\ finalMap = EmptyMap
    /\ frames = <<>>
    /\ cursor = 1
    /\ resolved = <<>>
    /\ ConvUnused /\ EditorUnused

Frame(id, stack) == [id |-> id, stack |-> stack, pc |-> "enter", parentEl |-> Absent]
Top == frames[Len(frames)]
Callers == SubSeq(frames, 1, Len(frames) - 1)

\* withParents.forEach: calculateElement(el.id) with the default empty stack
ForEachCall ==
    /\ cursor \in 1..Len(withParents) /\ frames = <<>>
    /\ frames' = <<Frame(withParents[cursor].id, <<>>)>>
    /\ UNCHANGED <<editorVars, conv, elements, viewport, output, withParents, finalMap, cursor, resolved>>

\* `return res`: the innermost call ends; its caller, if any, resumes with the value
ReturnTo(callers, res) ==
    IF callers = <<>>
    THEN frames' = <<>> /\ cursor' = cursor + 1
    ELSE /\ frames' = [callers EXCEPT ![Len(callers)] =
                          [@ EXCEPT !.pc = "returned", !.parentEl = Some(res)]]
         /\ cursor' = cursor

\* if (finalMap.has(id)) return finalMap.get(id)
ReturnCached ==
    /\ frames # <<>> /\ Top.pc = "enter"
    /\ Top.id \in DOMAIN finalMap
    /\ ReturnTo(Callers, finalMap[Top.id])
    /\ UNCHANGED <<editorVars, conv, elements, viewport, output, withParents, finalMap, resolved>>

\* a cycle guard that stores the estimate it answers with
ReturnCycle_CachesEstimate ==
    /\ frames # <<>> /\ Top.pc = "enter"
    /\ Top.id \notin DOMAIN finalMap
    /\ InSeq(Top.id, Top.stack)
    /\ finalMap' = MapSet(finalMap, Top.id, Find(withParents, Top.id))
    /\ ReturnTo(Callers, Find(withParents, Top.id))
    /\ UNCHANGED <<editorVars, conv, elements, viewport, output, withParents, resolved>>

\* if (stack.includes(id)) return withParents.find(...): the Pass-1 estimate, not cached
ReturnCycle ==
    /\ frames # <<>> /\ Top.pc = "enter"
    /\ Top.id \notin DOMAIN finalMap
    /\ InSeq(Top.id, Top.stack)
    /\ ReturnTo(Callers, Find(withParents, Top.id))
    /\ UNCHANGED <<editorVars, conv, elements, viewport, output, withParents, finalMap, resolved>>

\* calculateElement(el._runtime.parentId, [...stack, id])
CallParent ==
    /\ frames # <<>> /\ Top.pc = "enter"
    /\ Top.id \notin DOMAIN finalMap
    /\ ~InSeq(Top.id, Top.stack)
    /\ Truthy(Find(withParents, Top.id).runtime[1].parentId)
    /\ frames' = Append([frames EXCEPT ![Len(frames)] = [@ EXCEPT !.pc = "await"]],
                        Frame(Find(withParents, Top.id).runtime[1].parentId,
                              Append(Top.stack, Top.id)))
    /\ UNCHANGED <<editorVars, conv, elements, viewport, output, withParents, finalMap, cursor, resolved>>

\* compute width, height, x, y; finalMap.set(id, res); return res
ComputeAndReturn ==
    /\ frames # <<>>
    /\ \/ Top.pc = "returned"
       \/ /\ Top.pc = "enter"
          /\ Top.id \notin DOMAIN finalMap
          /\ ~InSeq(Top.id, Top.stack)
          /\ ~Truthy(Find(withParents, Top.id).runtime[1].parentId)
    /\ LET res == computeFinal(Find(withParents, Top.id), Top.parentEl, viewport)
       IN  /\ finalMap' = MapSet(finalMap, Top.id, res)
           /\ resolved' = Append(resolved, Top.id)
           /\ ReturnTo(Callers, res)
    /\ UNCHANGED <<editorVars, conv, elements, viewport, output, withParents>>

\* return elements.map(el => finalMap.get(el.id))
FinishPass3 ==
    /\ cursor = Len(withParents) + 1 /\ frames = <<>> /\ output = Absent
    /\ output' = Some(collectFirst(Len(elements), elements, finalMap))
    /\ UNCHANGED <<editorVars, conv, elements, viewport, withParents, finalMap, frames, cursor, resolved>>

NextResolve ==
    \/ ForEachCall
    \/ ReturnCached
    \/ ReturnCycle
    \/ CallParent
    \/ ComputeAndReturn
    \/ FinishPass3

SpecResolve == InitResolve /\ [][NextResolve]_vars

\* the engine is synchronous, single-threaded code: a call that can take a step takes it
SpecResolveFair == SpecResolve /\ WF_vars(NextResolve)

\* C5: calculateRuntimePositions terminates on every list, parent cycles included, and
\* calculateElement never nests deeper than the number of elements plus one
C5_TerminatesWithinDepth ==
    /\ [](Len(frames) <= Len(elements) + 1)
    /\ <>(output # Absent)

\* a ring of three elements: the fourth nested call is the one the cycle guard answers
C5_Witness ==
    /\ Len(elements) = 3 /\ Len(frames) = 4
    /\ Top.pc = "enter" /\ InSeq(Top.id, Top.stack)
    /\ Top.id = frames[1].id

\* the cycle guard is about to answer the innermost call, a call for `id`
CycleHit(id) ==
    /\ frames # <<>> /\ Top.pc = "enter" /\ Top.id = id
    /\ id \notin DOMAIN finalMap
    /\ InSeq(id, Top.stack)

EstimateOf(id) == Find(withParents, id)
ParentOf(id) == EstimateOf(id).runtime[1].parentId

\* the element a resumed call holds for its parent is the parent's cached result, or,
\* when the parent is not cached, the Pass-1 estimate of a parent that is on the stack
HoldsCachedOrEstimate(k) ==
    LET pid == ParentOf(frames[k].id)
    IN  IF pid \in DOMAIN finalMap
        THEN frames[k].parentEl = Some(finalMap[pid])
        ELSE /\ InSeq(pid, frames[k].stack)
             /\ frames[k].parentEl = Some(EstimateOf(pid))

CachedAgainstFinalParent(id) ==
    /\ id \in DOMAIN finalMap
    /\ ParentOf(id) \in DOMAIN finalMap
    /\ finalMap[id] = computeFinal(EstimateOf(id), Some(finalMap[ParentOf(id)]), viewport)

NoRepeat(seq) == \A i \in 1..Len(seq) : \A j \in 1..Len(seq) : seq[i] = seq[j] => i = j

\* C24: when the call for an element finds it on the active stack, the caller receives
\* the element's Pass-1 estimate and the cache is left as it is; a resumed call holds
\* either its parent's cached result or such an estimate; a cached result is never
\* replaced and no element is computed twice, and when Pass 3 ends every element has been
\* computed once; the element the guard answered for is later cached as its
\* configuration resolved against the cached rectangle of its own parent.
C24_CycleUsesEstimateOnce ==
    /\ [][(frames # <<>> /\ CycleHit(Top.id)) =>
            /\ finalMap' = finalMap
            /\ frames' = [Callers EXCEPT ![Len(Callers)] =
                            [@ EXCEPT !.pc = "returned", !.parentEl = Some(EstimateOf(Top.id))]]]_vars
    /\ [](\A k \in 1..Len(frames) : frames[k].pc = "returned" => HoldsCachedOrEstimate(k))
    /\ [][\A id \in DOMAIN finalMap : id \in DOMAIN finalMap' /\ finalMap'[id] = finalMap[id]]_vars
    /\ [](NoRepeat(resolved) /\ {resolved[i] : i \in 1..Len(resolved)} = DOMAIN finalMap)
    /\ [](Done => Len(resolved) = N)
    /\ \A id \in {Ids[i] : i \in DOMAIN Ids} : CycleHit(id) ~> CachedAgainstFinalParent(id)

\* a cycle of two: the first was answered for by its estimate, which its child was
\* resolved against, and is itself cached against the child's final rectangle; neither
\* rectangle is the one the other choice would have given
C24_Witness ==
    /\ Done
    /\ \E a \in DOMAIN finalMap : \E x \in DOMAIN finalMap :
          /\ ParentOf(x) = a /\ ParentOf(a) = x
          /\ finalMap[x] = computeFinal(EstimateOf(x), Some(EstimateOf(a)), viewport)
          /\ finalMap[x] # computeFinal(EstimateOf(x), Some(finalMap[a]), viewport)
          /\ CachedAgainstFinalParent(a)
          /\ finalMap[a] # computeFinal(EstimateOf(a), Some(EstimateOf(x)), viewport)


-----------------------------------------------------------------------------
(* SpecFeedback: calculateRuntimePositions called again on a list that already   *)
(* carries _runtime values: its own result, or the Pass-2 list with the Pass-1   *)
(* estimates, which are stale against the result                                *)

InitFeedback ==
    /\ elements \in ResolveLists
    /\ viewport = Viewport(Num(200), Num(100))
    /\ output = Absent
    /\ ConvUnused /\ ResolveUnused /\ EditorUnused

\* the second call, on a list whose elements carry a _runtime
FeedBack ==
    /\ output # Absent
    /\ N > 0 /\ elements[1].runtime = Absent
    /\ \E fed \in {output[1], withParents} :
          /\ elements' = fed
          /\ withParents' = withParentsOf(estimatedElements(fed, viewport))
          /\ output' = Some(calculateRuntimePositions(fed, viewport))
    /\ UNCHANGED <<editorVars, conv, viewport, finalMap, frames, cursor, resolved>>

NextFeedback == Calculate \/ FeedBack

SpecFeedback == InitFeedback /\ [][NextFeedback]_vars

\* C11: once calculateRuntimePositions has produced a result, calling it again on that
\* result, or on the same elements carrying any other _runtime, produces the same
\* result: the same _runtime (x, y, width, height, parentId) for every element
C11_IdempotentOnOutput ==
    [][output # Absent => output' = output]_vars

\* the second call has run on a list whose stale _runtime differs from the result,
\* which has a nested element
C11_Witness ==
    /\ Done /\ N >= 2
    /\ elements[1].runtime # Absent
    /\ elements # Out
    /\ \E i \in 1..N : ParentIdOf(i) # Null /\ FinalRect(i) # EstRect(i)


-----------------------------------------------------------------------------
(* The editor (src/App.tsx, src/components/Canvas.tsx,
   src/components/LayerPanel.tsx, the property panel in src/unnamed/part_000).

   One action per handler.  The effect a render scheduled runs at some later
   step, and no handler waits for it.  No handler asks whether a gesture is
   in progress: a field edit, a layer drop,
   a preset, a mode button or a second mouse-down arrive during a drag as
   they do at any other time.  A handler is there to be called when the
   control that calls it is rendered: the presets, the add buttons, the layer
   panel, the property panel and the canvas's elements in the 'editor' mode
   only, the canvas itself in the 'editor' and 'preview' modes, the size
   fields and the mode buttons always.  The mouse-move and mouse-up listeners
   are on the window while dragState is set, whatever the mode.  A mouse
   position is given as the pointer's distance from the press in client
   pixels, with the scale the canvas has at the move. *)

MaxOps == 2

INITIAL_ELEMENTS_RAW ==
    << Element("box-1", LayoutConfig(Px(0), Px(0), Pct(100, VW), Px(80),
                                     Some(1), "left", "top", Absent)),
       Element("box-2", LayoutConfig(Px(0), Px(100), Pct(80, PERCENT_PARENT_W), Px(400),
                                     Some(2), "center", "top", Absent)),
       Element("box-3", LayoutConfig(Px(20), Px(20), Px(50), Px(50),
                                     Some(3), "right", "bottom", Absent)) >>

VIEWPORTS ==
    << Viewport(Num(1280), Num(800)), Viewport(Num(768), Num(1024)),
       Viewport(Num(375), Num(667)), Viewport(Num(1920), Num(1080)) >>

RESIZE_HANDLES == {"nw", "n", "ne", "w", "e", "sw", "s", "se"}

\* `el-${Date.now()}` for the milliseconds Date.now() returns, numbered in the order
\* in which they are first read
NewIds == <<"el-1", "el-2", "el-3", "el-4">>

\* the most elements the editor adds
MaxAdded == 2

MODES == {"editor", "preview", "yaml"}

\* inputs of the handlers
ValueInputs == {<<"x", Num(50)>>, <<"width", Zero>>}
UnitInputs == {"x", "height"}
UnitCategories == {"px", "percent", "viewport"}
\* text of the z-index field
ZInputs == {"0"}
ContainerInputs == {FALSE}
PresetInputs == {3}
ResizeInputs == {<<"height", 0>>}
\* text of the name field
NameInputs == {"Header"}
HandleInputs == {"", "se"}

\* Math.max and Math.min of two numbers: NaN when either is NaN
Max(a, b) == IF a = NaN \/ b = NaN THEN NaN ELSE IF Leq(a, b) THEN b ELSE a
Min(a, b) == IF a = NaN \/ b = NaN THEN NaN ELSE IF Leq(a, b) THEN a ELSE b

\* the padding handleFitCanvas leaves around the canvas
Padding == 80
\* the scale App.tsx handleFitCanvas sets for a work area of clientWidth by clientHeight
\* pixels that is larger than the padding: at least 0.1, at most 1
handleFitCanvas(clientWidth, clientHeight, vp) ==
    Max(Div(Num(1), Num(10)),
        Min(Min(Div(Num(clientWidth - Padding), vp.width),
                Div(Num(clientHeight - Padding), vp.height)),
            Num(1)))

\* the scale of App.tsx: 1 at the start and after Reset
InitialScale == Num(1)
\* the scale after Fit with the viewport 1280 x 800 in a work area of 464 x 680: 0.3
NarrowScale == handleFitCanvas(464, 680, Viewport(Num(1280), Num(800)))
\* the scale after Fit with the same viewport in a work area of 1040 x 880: 0.75
WideScale == handleFitCanvas(1040, 880, Viewport(Num(1280), Num(800)))

\* pointer moves: clientX - startX, clientY - startY and the scale
MoveInputs == {<<-1000, -500, InitialScale>>, <<40, 100, InitialScale>>}

InitEditor ==
    /\ viewport = VIEWPORTS[1]
    /\ elements = calculateRuntimePositions(INITIAL_ELEMENTS_RAW, VIEWPORTS[1])
    /\ selectedId = Null
    /\ dragState = Absent
    /\ tempRect = Absent
    /\ effectPending = TRUE
    /\ mode = "editor"
    /\ opCount = 0
    /\ output = Absent
    /\ ConvUnused /\ ResolveUnused

\* the controls rendered under `mode === 'editor'`
InEditorMode == mode = "editor"
\* the bound on the handlers but the window's mouse listeners; neither a scheduled
\* effect nor a gesture in progress keeps any of them back
CanOperate == opCount < MaxOps

RECURSIVE addedFirst(_, _)
addedFirst(n, els) ==
    IF n = 0 THEN {}
    ELSE addedFirst(n - 1, els) \cup
         (IF \E k \in 1..Len(NewIds) : NewIds[k] = els[n].id THEN {els[n].id} ELSE {})

\* the milliseconds Date.now() may return at the next call: one that an earlier call
\* read (the same millisecond, or the clock was set back) or the next new one
Milliseconds(els) == 1..(Cardinality(addedFirst(Len(els), els)) + 1)

\* { ...el.layout, ...newLayout }
mergeLayout(layout, patch) ==
    [x           |-> IF "x" \in DOMAIN patch THEN patch["x"] ELSE layout.x,
     y           |-> IF "y" \in DOMAIN patch THEN patch["y"] ELSE layout.y,
     width       |-> IF "width" \in DOMAIN patch THEN patch["width"] ELSE layout.width,
     height      |-> IF "height" \in DOMAIN patch THEN patch["height"] ELSE layout.height,
     zIndex      |-> IF "zIndex" \in DOMAIN patch THEN patch["zIndex"] ELSE layout.zIndex,
     anchorX     |-> IF "anchorX" \in DOMAIN patch THEN patch["anchorX"] ELSE layout.anchorX,
     anchorY     |-> IF "anchorY" \in DOMAIN patch THEN patch["anchorY"] ELSE layout.anchorY,
     isContainer |-> IF "isContainer" \in DOMAIN patch THEN patch["isContainer"]
                     ELSE layout.isContainer,
     name        |-> IF "name" \in DOMAIN patch THEN patch["name"] ELSE layout.name]

RECURSIVE mergeFirst(_, _, _, _)
mergeFirst(n, els, id, patch) ==
    IF n = 0 THEN <<>>
    ELSE Append(mergeFirst(n - 1, els, id, patch),
                IF els[n].id = id
                THEN [els[n] EXCEPT !.layout = mergeLayout(els[n].layout, patch)]
                ELSE els[n])

\* App.tsx updateElement: merge, then recalculate
updateElement(els, id, patch, vp) ==
    calculateRuntimePositions(mergeFirst(Len(els), els, id, patch), vp)

\* the property panel's view of the selected element.  The panel's handlers test
\* Has(elements, selectedId) before they resolve the list: the resolved list holds the
\* ids of `elements`, so `find` on it returns nothing otherwise.
PanelOpen(runtimeElements) ==
    /\ Has(runtimeElements, selectedId)
    /\ Find(runtimeElements, selectedId).runtime # Absent

logicalParentRect(selectedEl, runtimeElements, vp) ==
    getParentRect(selectedEl.runtime[1].parentId, runtimeElements, vp)

getUnitCategory(unit) ==
    IF unit = PX THEN "px"
    ELSE IF unit = VW \/ unit = VH THEN "viewport"
    ELSE "percent"

nextUnitOf(value, axis, targetCategory) ==
    IF targetCategory = "px" THEN PX
    ELSE IF targetCategory = "percent"
    THEN IF getUnitCategory(value.unit) = "percent"
         THEN (IF value.unit = PERCENT_PARENT_W THEN PERCENT_PARENT_H ELSE PERCENT_PARENT_W)
         ELSE (IF axis = "x" \/ axis = "width" THEN PERCENT_PARENT_W ELSE PERCENT_PARENT_H)
    ELSE IF getUnitCategory(value.unit) = "viewport"
         THEN (IF value.unit = VW THEN VH ELSE VW)
         ELSE (IF axis = "x" \/ axis = "width" THEN VW ELSE VH)

getPixels(prop, selectedEl, vp, parentRect) ==
    CASE prop = "width" -> selectedEl.runtime[1].width
      [] prop = "height" -> selectedEl.runtime[1].height
      [] prop \in {"x", "y"} ->
            convertAbsoluteToOffset(selectedEl.runtime[1][prop],
                                    IF prop = "x" THEN OrElse(selectedEl.layout.anchorX, "left")
                                    ELSE OrElse(selectedEl.layout.anchorY, "top"),
                                    prop,
                                    IF prop = "x" THEN selectedEl.runtime[1].width
                                    ELSE selectedEl.runtime[1].height,
                                    PX, vp, parentRect)

\* handleUnitClick: the value that keeps the rendered pixels under the next unit
handleUnitClick(prop, targetCategory, selectedEl, runtimeElements, vp) ==
    CHOOSE it \in
        {LayoutValue(fromPixels(getPixels(prop, sel, vp, parentRect), nextUnit, vp, parentRect),
                     nextUnit) :
         sel \in {selectedEl},
         parentRect \in {logicalParentRect(selectedEl, runtimeElements, vp)},
         nextUnit \in {nextUnitOf(selectedEl.layout[prop], prop, targetCategory)}} : TRUE

\* handleChangeAnchor: the patch that keeps the absolute position under the new anchor
handleChangeAnchor(axis, newAnchor, selectedEl, runtimeElements, vp) ==
    CHOOSE it \in
        {CHOOSE patch \in
            {(IF axis = "x" THEN "anchorX" ELSE "anchorY") :> newAnchor
             @@ axis :> LayoutValue(newOffsetValue, sel.layout[axis].unit) :
             newOffsetValue \in
                {convertAbsoluteToOffset(sel.runtime[1][axis], newAnchor, axis,
                                         IF axis = "x" THEN sel.runtime[1].width
                                         ELSE sel.runtime[1].height,
                                         sel.layout[axis].unit, vp, parentRect)}} : TRUE :
         sel \in {selectedEl},
         parentRect \in {logicalParentRect(selectedEl, runtimeElements, vp)}} : TRUE

EditorRest == <<conv, output, withParents, finalMap, frames, cursor, resolved>>

\* a panel edit: onUpdate(selectedEl.id, patch)
PanelUpdate(patch) ==
    /\ \E newLayout \in {patch} :
          elements' = updateElement(elements, selectedId, newLayout, viewport)
    /\ opCount' = opCount + 1
    /\ UNCHANGED <<viewport, selectedId, dragState, tempRect, effectPending, mode, EditorRest>>

\* onSelect: a click in the layer panel, or on the canvas background (null)
Select ==
    /\ CanOperate
    /\ \E id \in {elements[i].id : i \in 1..Len(elements)} \cup {Null} :
          /\ IF id = Null THEN mode # "yaml" ELSE InEditorMode
          /\ selectedId' = id
    /\ opCount' = opCount + 1
    /\ UNCHANGED <<elements, viewport, dragState, tempRect, effectPending, mode, EditorRest>>

\* handleValueChange
ChangeValue ==
    /\ CanOperate /\ InEditorMode
    /\ Has(elements, selectedId)
    /\ \E runtimeElements \in {calculateRuntimePositions(elements, viewport)} :
          /\ PanelOpen(runtimeElements)
          /\ \E in \in ValueInputs :
                PanelUpdate(in[1] :> LayoutValue(in[2],
                                Find(runtimeElements, selectedId).layout[in[1]].unit))

\* a click on a unit button of one of the rows `props`
SwitchUnitOf(props) ==
    /\ CanOperate /\ InEditorMode
    /\ Has(elements, selectedId)
    /\ \E runtimeElements \in {calculateRuntimePositions(elements, viewport)} :
          /\ PanelOpen(runtimeElements)
          /\ \E prop \in props, targetCategory \in UnitCategories :
                PanelUpdate(prop :> handleUnitClick(prop, targetCategory,
                                        Find(runtimeElements, selectedId),
                                        runtimeElements, viewport))

SwitchUnit == SwitchUnitOf(UnitInputs)

ChangeAnchor ==
    /\ CanOperate /\ InEditorMode
    /\ Has(elements, selectedId)
    /\ \E runtimeElements \in {calculateRuntimePositions(elements, viewport)} :
          /\ PanelOpen(runtimeElements)
          /\ \E axis \in {"x", "y"} :
                \E newAnchor \in AnchorsOf(axis) :
                   PanelUpdate(handleChangeAnchor(axis, newAnchor,
                                   Find(runtimeElements, selectedId),
                                   runtimeElements, viewport))

\* parseInt of the z-index field's text.  parseInt('') is NaN; a z-order that is NaN is
\* held as an absent one: `|| 0` and `<=`, the code's only readers of it, treat NaN as
\* they treat undefined
parseInt(text) ==
    CASE text = "" -> Absent
      [] text = "0" -> Some(0)

\* the z-index input
ChangeZIndex ==
    /\ CanOperate /\ InEditorMode
    /\ Has(elements, selectedId)
    /\ \E runtimeElements \in {calculateRuntimePositions(elements, viewport)} :
          /\ PanelOpen(runtimeElements)
          /\ \E text \in ZInputs : PanelUpdate("zIndex" :> parseInt(text))

\* the name field: onUpdate(selectedEl.id, { name: e.target.value }).  updateElement
\* spreads the patch into the element's layout: the layout gains the key `name`, the
\* element's own name stays as it is, and the list is recalculated
ChangeName ==
    /\ CanOperate /\ InEditorMode
    /\ Has(elements, selectedId)
    /\ \E runtimeElements \in {calculateRuntimePositions(elements, viewport)} :
          /\ PanelOpen(runtimeElements)
          /\ \E text \in NameInputs : PanelUpdate("name" :> Some(text))

\* the container checkbox
ChangeIsContainer ==
    /\ CanOperate /\ InEditorMode
    /\ Has(elements, selectedId)
    /\ \E runtimeElements \in {calculateRuntimePositions(elements, viewport)} :
          /\ PanelOpen(runtimeElements)
          /\ \E b \in ContainerInputs : PanelUpdate("isContainer" :> Some(b))

\* the element addElement builds when Date.now() returns the millisecond `now`; its
\* z-order is elements.length + 1 for the list of the render the click was made on
newEl(now, els) ==
    Element(NewIds[now], LayoutConfig(Px(100), Px(100), Px(100), Px(100),
                                      Some(Len(els) + 1), "left", "top", Absent))

\* prev => calculateRuntimePositions([...prev, newEl], viewport)
withNewEl(els, now, vp) == calculateRuntimePositions(Append(els, newEl(now, els)), vp)

\* App.tsx addElement
addElement ==
    /\ CanOperate /\ InEditorMode
    /\ Len(elements) < Len(INITIAL_ELEMENTS_RAW) + MaxAdded
    /\ \E now \in Milliseconds(elements) :
          /\ elements' = withNewEl(elements, now, viewport)
          /\ selectedId' = NewIds[now]
    /\ opCount' = opCount + 1
    /\ UNCHANGED <<viewport, dragState, tempRect, effectPending, mode, EditorRest>>

\* LayerPanel.tsx: [...elements].sort by zIndex, highest first
RECURSIVE insertByZ(_, _)
insertByZ(x, sorted) ==
    (CHOOSE it \in
        {IF a[2] = <<>> THEN <<a[1]>>
         ELSE IF OrZero(a[1].layout.zIndex) - OrZero(Head(a[2]).layout.zIndex) > 0
         THEN <<a[1]>> \o a[2]
         ELSE <<Head(a[2])>> \o insertByZ(a[1], Tail(a[2]))
           : a \in {<<x, sorted>>}} : TRUE)

RECURSIVE sortedElements(_)
sortedElements(els) ==
    IF els = <<>> THEN <<>>
    ELSE insertByZ(els[Len(els)], sortedElements(SubSeq(els, 1, Len(els) - 1)))

RECURSIVE idsOf(_)
idsOf(els) == IF els = <<>> THEN <<>> ELSE <<Head(els).id>> \o idsOf(Tail(els))

IndexOf(seq, x) == CHOOSE i \in 1..Len(seq) : seq[i] = x /\ \A j \in 1..(i - 1) : seq[j] # x

\* a drop that exchanges the two items
moveItem_Swap(list, from, to) ==
    [i \in 1..Len(list) |-> IF i = from THEN list[to] ELSE IF i = to THEN list[from] ELSE list[i]]

\* the two splices of handleDrop, on 1-based positions
moveItem(list, from, to) ==
    LET without == SubSeq(list, 1, from - 1) \o SubSeq(list, from + 1, Len(list))
    IN  SubSeq(without, 1, to - 1) \o <<list[from]>> \o SubSeq(without, to, Len(without))

RECURSIVE restackFirst(_, _, _)
restackFirst(n, els, sortedIds) ==
    IF n = 0 THEN <<>>
    ELSE Append(restackFirst(n - 1, els, sortedIds),
                IF \E i \in 1..Len(sortedIds) : sortedIds[i] = els[n].id
                THEN [els[n] EXCEPT !.layout.zIndex =
                         Some(Len(sortedIds) - (IndexOf(sortedIds, els[n].id) - 1))]
                ELSE els[n])

\* App.tsx handleLayerReorder
handleLayerReorder(els, sortedIds, vp) ==
    (CHOOSE it \in
        {calculateRuntimePositions(restackFirst(Len(els), els, ids), vp)
           : ids \in {sortedIds}} : TRUE)

\* LayerPanel.tsx handleDrop
LayerDrop ==
    /\ CanOperate /\ InEditorMode
    /\ \E draggedId, targetId \in {elements[i].id : i \in 1..Len(elements)} :
          /\ draggedId # targetId
          /\ \E ids \in {idsOf(sortedElements(elements))} :
                elements' = handleLayerReorder(elements,
                                moveItem(ids, IndexOf(ids, draggedId), IndexOf(ids, targetId)),
                                viewport)
    /\ opCount' = opCount + 1
    /\ UNCHANGED <<viewport, selectedId, dragState, tempRect, effectPending, mode, EditorRest>>

\* an effect that depends on the width alone
SetViewportTo_WidthOnly(vp) ==
    /\ viewport' = vp
    /\ effectPending' = (effectPending \/ vp.width # viewport.width)
    /\ opCount' = opCount + 1
    /\ UNCHANGED <<elements, selectedId, dragState, tempRect, mode, EditorRest>>

\* the effect of App.tsx is scheduled when the viewport's width or height changed.  An
\* effect still scheduled then runs against the viewport of its own render and is
\* followed by the effect of the new render; Pass 1 overwrites every _runtime, so the
\* list after both is the list after the second alone, which is what the one scheduled
\* effect stores
SetViewportTo(vp) ==
    /\ viewport' = vp
    /\ effectPending' =
          (effectPending \/ vp.width # viewport.width \/ vp.height # viewport.height)
    /\ opCount' = opCount + 1
    /\ UNCHANGED <<elements, selectedId, dragState, tempRect, mode, EditorRest>>

\* a click on a viewport preset
SelectViewport ==
    /\ CanOperate /\ InEditorMode
    /\ \E i \in PresetInputs : SetViewportTo(VIEWPORTS[i])

\* App.tsx handleViewportResize
handleViewportResize ==
    /\ CanOperate
    /\ \E in \in ResizeInputs :
          SetViewportTo([viewport EXCEPT ![in[1]] = Num(in[2])])

\* the viewport effect: setElements(prev => calculateRuntimePositions(prev, viewport))
ViewportEffect ==
    /\ effectPending
    /\ elements' = calculateRuntimePositions(elements, viewport)
    /\ effectPending' = FALSE
    /\ UNCHANGED <<viewport, selectedId, dragState, tempRect, opCount, mode, EditorRest>>

\* the canvas renders an element that has a rectangle: its _runtime, or the override
\* rectangle when that carries its id
isRendered(el) ==
    el.runtime # Absent \/ (tempRect # Absent /\ tempRect[1].id = el.id)

\* Canvas.tsx handleMouseDown
\* a mouse-down on a rendered element (handle "") or on one of the resize handles
\* `handles`, which are rendered inside the selected element only
handleMouseDownOn(handles) ==
    /\ CanOperate /\ InEditorMode
    /\ \E id \in {elements[i].id : i \in 1..Len(elements)}, handle \in handles :
          /\ \E i \in 1..Len(elements) : elements[i].id = id /\ isRendered(elements[i])
          /\ handle # "" => selectedId = id
          /\ selectedId' = id
          /\ IF Find(elements, id).runtime = Absent
             THEN UNCHANGED <<dragState, tempRect>>
             ELSE LET rt == Find(elements, id).runtime[1]
                  IN  /\ dragState' = Some([isDragging |-> handle = "",
                                            isResizing |-> handle # "",
                                            initialRect |-> Rect(rt.x, rt.y, rt.width, rt.height),
                                            handle |-> handle])
                      /\ tempRect' = Some([id |-> id, x |-> rt.x, y |-> rt.y,
                                           w |-> rt.width, h |-> rt.height])
    /\ opCount' = opCount + 1
    /\ UNCHANGED <<elements, viewport, effectPending, mode, EditorRest>>

handleMouseDown == handleMouseDownOn(HandleInputs)

\* String.prototype.includes on a handle name
includes(h, c) ==
    CASE c = "n" -> h \in {"nw", "n", "ne"}
      [] c = "s" -> h \in {"sw", "s", "se"}
      [] c = "w" -> h \in {"nw", "w", "sw"}
      [] c = "e" -> h \in {"ne", "e", "se"}

MinSize == Num(10)

\* a resize without the minimum size
resizedRect_NoMinimum(id, init, h, deltaX, deltaY) ==
    CHOOSE it \in
        {[id |-> id,
          x |-> IF includes(h, "w") THEN Add(init.x, deltaX) ELSE init.x,
          y |-> IF includes(h, "n") THEN Add(init.y, deltaY) ELSE init.y,
          w |-> IF includes(h, "w") THEN Sub(eW, deltaX) ELSE eW,
          h |-> IF includes(h, "n") THEN Sub(sH, deltaY) ELSE sH] :
         eW \in {IF includes(h, "e") THEN Add(init.width, deltaX) ELSE init.width},
         sH \in {IF includes(h, "s") THEN Add(init.height, deltaY) ELSE init.height}} : TRUE

\* the rectangle handleMouseMove computes while resizing
resizedRect(id, init, h, deltaX, deltaY) ==
    CHOOSE it \in
        {[id |-> id,
          x |-> IF includes(h, "w") THEN Add(init.x, wChange) ELSE init.x,
          y |-> IF includes(h, "n") THEN Add(init.y, hChange) ELSE init.y,
          w |-> IF includes(h, "w") THEN Sub(eW, wChange) ELSE eW,
          h |-> IF includes(h, "n") THEN Sub(sH, hChange) ELSE sH] :
         wChange \in {Min(Sub(init.width, MinSize), deltaX)},
         hChange \in {Min(Sub(init.height, MinSize), deltaY)},
         eW \in {IF includes(h, "e") THEN Max(MinSize, Add(init.width, deltaX)) ELSE init.width},
         sH \in {IF includes(h, "s") THEN Max(MinSize, Add(init.height, deltaY)) ELSE init.height}} :
        TRUE

\* deltaX = (e.clientX - dragState.startX) / scale, and deltaY
scaledDelta(move) == <<Div(Num(move[1]), move[3]), Div(Num(move[2]), move[3])>>

\* a mouse-move that also writes the dragged position into the element list and
\* re-resolves it
handleMouseMove_LiveUpdate ==
    /\ dragState # Absent /\ tempRect # Absent
    /\ \E move \in MoveInputs : \E d \in {scaledDelta(move)} :
          LET ds == dragState[1]
              moved == Some([tempRect[1] EXCEPT !.x = Add(ds.initialRect.x, d[1]),
                                                !.y = Add(ds.initialRect.y, d[2])])
          IN  /\ tempRect' = moved
              /\ elements' = updateElement(elements, tempRect[1].id,
                                           ("x" :> LayoutValue(moved[1].x, PX))
                                           @@ ("y" :> LayoutValue(moved[1].y, PX)),
                                           viewport)
    /\ UNCHANGED <<viewport, selectedId, dragState, effectPending, opCount, mode, EditorRest>>

\* Canvas.tsx handleMouseMove, for one of the pointer moves `moves`
handleMouseMoveBy(moves) ==
    /\ dragState # Absent /\ tempRect # Absent
    /\ \E move \in moves : \E d \in {scaledDelta(move)} :
          LET ds == dragState[1]
          IN  IF ds.isDragging
              THEN tempRect' = Some([tempRect[1] EXCEPT !.x = Add(ds.initialRect.x, d[1]),
                                                        !.y = Add(ds.initialRect.y, d[2])])
              ELSE IF ds.isResizing /\ ds.handle # ""
              THEN tempRect' = Some(resizedRect(tempRect[1].id, ds.initialRect, ds.handle,
                                                d[1], d[2]))
              ELSE UNCHANGED tempRect
    /\ UNCHANGED <<elements, viewport, selectedId, dragState, effectPending, opCount, mode, EditorRest>>

handleMouseMove == handleMouseMoveBy(MoveInputs)

\* a drop filter that lets an element contain itself
isDropCandidate_NoSelfCheck(p, el, cx, cy) ==
    /\ p.runtime # Absent
    /\ p.layout.isContainer # Some(FALSE)
    /\ Leq(p.runtime[1].x, cx)
    /\ Leq(cx, Add(p.runtime[1].x, p.runtime[1].width))
    /\ Leq(p.runtime[1].y, cy)
    /\ Leq(cy, Add(p.runtime[1].y, p.runtime[1].height))

\* the drop's parent filter, on the stored rectangles
isDropCandidate(p, el, cx, cy) ==
    /\ p.id # el.id
    /\ p.runtime # Absent
    /\ p.layout.isContainer # Some(FALSE)
    /\ Leq(p.runtime[1].x, cx)
    /\ Leq(cx, Add(p.runtime[1].x, p.runtime[1].width))
    /\ Leq(p.runtime[1].y, cy)
    /\ Leq(cy, Add(p.runtime[1].y, p.runtime[1].height))

\* a drop comparator without the area tie-break
compareDropParents_ZOnly(a, b) ==
    LET zDiff == OrZero(b.layout.zIndex) - OrZero(a.layout.zIndex)
    IN  IF zDiff # 0 THEN (IF zDiff < 0 THEN -1 ELSE 1) ELSE 0

\* `n || 0` on a number: NaN and 0 are falsy
NumberOrZero(n) == IF n = NaN THEN Zero ELSE n

\* the comparator of the drop's potentialParents.sort, as the sign of its return value,
\* 0 for NaN
compareDropParents(a, b) ==
    LET zDiff == OrZero(b.layout.zIndex) - OrZero(a.layout.zIndex)
    IN  IF zDiff # 0 THEN (IF zDiff < 0 THEN -1 ELSE 1)
        ELSE Sign(Sub(Mul(NumberOrZero(a.runtime[1].width),
                          NumberOrZero(a.runtime[1].height)),
                      Mul(NumberOrZero(b.runtime[1].width),
                          NumberOrZero(b.runtime[1].height))))

\* the drop's potentialParents.sort(compareDropParents)
sortDropParents(seq) ==
    (CHOOSE it \in
        {permuted(s, ArrayTimSort(Len(s),
                      [i \in 1..Len(s) |->
                          [j \in 1..Len(s) |-> compareDropParents(s[i], s[j])]]))
           : s \in {seq}} : TRUE)

dropParents(displayElements, el, cx, cy) ==
    sortDropParents(SelectSeq(displayElements, LAMBDA p : isDropCandidate(p, el, cx, cy)))

\* the z-index auto-correction of the drop
newZIndexOf(el, parents) ==
    IF parents # <<>> /\ el.layout.zIndex # Absent /\ parents[1].layout.zIndex # Absent
       /\ el.layout.zIndex[1] <= parents[1].layout.zIndex[1]
    THEN Some(parents[1].layout.zIndex[1] + 1)
    ELSE el.layout.zIndex

\* `potentialParents.length > 0 ? potentialParents[0].id : null`
newParentIdOf(parents) == IF parents # <<>> THEN parents[1].id ELSE Null

\* a drop that back-calculates against the viewport whatever parent it chose
droppedElement_AgainstViewport(el, t, displayElements, vp) ==
    CHOOSE it \in
        {CHOOSE dropped \in
            {[id |-> el.id,
              layout |-> [el.layout EXCEPT
                             !.zIndex = newZIndexOf(el, parents),
                             !.x = LayoutValue(
                                      convertAbsoluteToOffset(
                                          t.x, OrElse(el.layout.anchorX, "left"), "x", t.w,
                                          el.layout.x.unit, vp, parentRect),
                                      el.layout.x.unit),
                             !.y = LayoutValue(
                                      convertAbsoluteToOffset(
                                          t.y, OrElse(el.layout.anchorY, "top"), "y", t.h,
                                          el.layout.y.unit, vp, parentRect),
                                      el.layout.y.unit),
                             !.width = LayoutValue(
                                          fromPixels(t.w, el.layout.width.unit, vp, parentRect),
                                          el.layout.width.unit),
                             !.height = LayoutValue(
                                           fromPixels(t.h, el.layout.height.unit, vp, parentRect),
                                           el.layout.height.unit)],
              runtime |-> Some(Runtime(t.x, t.y, t.w, t.h, newParentIdOf(parents)))] :
             parentRect \in {ViewportRect(vp)}} : TRUE :
         parents \in {dropParents(displayElements, el,
                                  Add(t.x, Div(t.w, Two)), Add(t.y, Div(t.h, Two)))}} : TRUE

\* the element handleMouseUp writes for the dropped rectangle
droppedElement(el, t, displayElements, vp) ==
    CHOOSE it \in
        {CHOOSE dropped \in
            {[id |-> el.id,
              layout |-> [el.layout EXCEPT
                             !.zIndex = newZIndexOf(el, parents),
                             !.x = LayoutValue(
                                      convertAbsoluteToOffset(
                                          t.x, OrElse(el.layout.anchorX, "left"), "x", t.w,
                                          el.layout.x.unit, vp, parentRect),
                                      el.layout.x.unit),
                             !.y = LayoutValue(
                                      convertAbsoluteToOffset(
                                          t.y, OrElse(el.layout.anchorY, "top"), "y", t.h,
                                          el.layout.y.unit, vp, parentRect),
                                      el.layout.y.unit),
                             !.width = LayoutValue(
                                          fromPixels(t.w, el.layout.width.unit, vp, parentRect),
                                          el.layout.width.unit),
                             !.height = LayoutValue(
                                           fromPixels(t.h, el.layout.height.unit, vp, parentRect),
                                           el.layout.height.unit)],
              runtime |-> Some(Runtime(t.x, t.y, t.w, t.h, newParentIdOf(parents)))] :
             parentRect \in {getParentRect(newParentIdOf(parents), displayElements, vp)}} : TRUE :
         parents \in {dropParents(displayElements, el,
                                  Add(t.x, Div(t.w, Two)), Add(t.y, Div(t.h, Two)))}} : TRUE

\* a commit that re-estimates every other element against the viewport
RECURSIVE dropFirst_OthersReestimated(_, _, _, _)
dropFirst_OthersReestimated(n, els, t, vp) ==
    IF n = 0 THEN <<>>
    ELSE Append(dropFirst_OthersReestimated(n - 1, els, t, vp),
                IF els[n].id = t.id
                THEN droppedElement(Find(els, t.id), t, els, vp)
                ELSE resolveAgainst(els[n], vp, ViewportRect(vp), Null))

RECURSIVE dropFirst(_, _, _, _)
dropFirst(n, els, t, vp) ==
    IF n = 0 THEN <<>>
    ELSE Append(dropFirst(n - 1, els, t, vp),
                IF els[n].id = t.id
                THEN droppedElement(Find(els, t.id), t, els, vp)
                ELSE els[n])

\* `newLayout = { ...el.layout, zIndex }` copies the layout's fields, not the objects they
\* hold: `newLayout.x.value = ...` writes into the x, y, width and height objects of the
\* element the commit started from
writtenThrough(el, new) ==
    [el EXCEPT !.layout.x = new.layout.x, !.layout.y = new.layout.y,
               !.layout.width = new.layout.width, !.layout.height = new.layout.height]

\* the array a commit started from, as its objects read after the commit that built newEls
RECURSIVE previousFirst(_, _, _)
previousFirst(n, els, newEls) ==
    IF n = 0 THEN <<>>
    ELSE Append(previousFirst(n - 1, els, newEls),
                IF newEls[n] # els[n] THEN writtenThrough(els[n], newEls[n]) ELSE els[n])

\* Canvas.tsx handleMouseUp, which hands the new list to App.tsx handleCanvasUpdate
handleMouseUp ==
    /\ dragState # Absent
    /\ IF tempRect # Absent /\ Has(elements, tempRect[1].id)
       THEN elements' = dropFirst(Len(elements), elements, tempRect[1], viewport)
       ELSE UNCHANGED elements
    /\ dragState' = Absent
    /\ tempRect' = Absent
    /\ UNCHANGED <<viewport, selectedId, effectPending, opCount, mode, EditorRest>>

\* App.tsx setMode, the three mode buttons.  The canvas is rendered in the 'editor' and
\* 'preview' modes and keeps its state between them; the 'yaml' mode unmounts it, and its
\* dragState and tempRect are the initial ones when it is mounted again
setMode ==
    /\ CanOperate
    /\ \E m \in MODES :
          /\ mode' = m
          /\ IF m = "yaml"
             THEN dragState' = Absent /\ tempRect' = Absent
             ELSE UNCHANGED <<dragState, tempRect>>
    /\ opCount' = opCount + 1
    /\ UNCHANGED <<elements, viewport, selectedId, effectPending, EditorRest>>

Next ==
    \/ Select
    \/ ChangeValue
    \/ SwitchUnit
    \/ ChangeAnchor
    \/ ChangeZIndex
    \/ ChangeIsContainer
    \/ ChangeName
    \/ addElement
    \/ LayerDrop
    \/ SelectViewport
    \/ handleViewportResize
    \/ ViewportEffect
    \/ handleMouseDown
    \/ handleMouseMove
    \/ handleMouseUp
    \/ setMode

Spec == InitEditor /\ [][Next]_vars

\* C3: whenever no viewport effect is pending, the stored list is what
\* calculateRuntimePositions computes from its own configuration and the
\* viewport, runtime rectangles and parent links included.
C3_RuntimeAlwaysDerived ==
    ~effectPending => elements = calculateRuntimePositions(elements, viewport)


InGesture == dragState # Absent

\* C19: no mouse-move changes the element list or the drag state, only the override
\* rectangle; of the canvas's three handlers only the mouse-up that ends a gesture writes
\* the element list, so a gesture commits at most once; after a mouse-up the drag state
\* and the override rectangle are cleared, and the override rectangle never outlives
\* the drag state
C19_CommitOnlyAtMouseUp ==
    [][ /\ handleMouseMove => (elements' = elements /\ dragState' = dragState)
        /\ handleMouseDown => elements' = elements
        /\ (elements' # elements /\ (handleMouseDown \/ handleMouseMove \/ handleMouseUp))
              => (InGesture /\ ~InGesture')
        /\ handleMouseUp => (dragState' = Absent /\ tempRect' = Absent)
        /\ (~InGesture') => tempRect' = Absent ]_vars

\* a committed drag: box-1 stored where it was dropped, the gesture over
C19_Witness ==
    /\ ~InGesture /\ tempRect = Absent
    /\ opCount >= 1
    /\ Has(elements, "box-1")
    /\ Find(elements, "box-1").runtime # Absent
    /\ Find(elements, "box-1").runtime[1].x = Num(40)
    /\ Find(elements, "box-1").runtime[1].y = Num(100)

-----------------------------------------------------------------------------
(* SpecPanel: the property panel's unit and anchor switches on a selected
   element of a resolved list drawn from a palette *)

MaxPanelElems == 2

PanelPalette ==
    { \* container of half the viewport at the origin (spec Scenario A's C): (0,0,640,400)
      LayoutConfig(Px(0), Px(0), Pct(50, PERCENT_PARENT_W), Pct(50, PERCENT_PARENT_H),
                   Some(1), "left", "top", Some(TRUE)),
      \* Scenario A's D
      LayoutConfig(Px(10), Px(10), Px(50), Px(50), Some(2), "left", "top", Some(FALSE)),
      \* a container away from the origin: (200,100,300,200)
      LayoutConfig(Px(200), Px(100), Px(300), Px(200), Some(1), "left", "top", Some(TRUE)),
      \* Scenario C's element: left-anchored at x = 100, 50 wide
      LayoutConfig(Px(100), Px(10), Px(50), Px(50), Some(2), "left", "top", Some(FALSE)),
      \* a small element whose estimate lies in the container away from the origin
      LayoutConfig(Px(220), Px(120), Px(50), Px(50), Some(2), "left", "top", Some(FALSE)) }

PanelLists ==
    UNION {
        {[i \in 1..n |-> Element(Ids[i], f[i])] : f \in [1..n -> PanelPalette]} :
        n \in 1..MaxPanelElems}

PanelRows == {"x", "y", "width", "height"}

InitPanel ==
    /\ viewport = VIEWPORTS[1]
    /\ \E l \in PanelLists :
          /\ elements = calculateRuntimePositions(l, VIEWPORTS[1])
          /\ selectedId \in {l[i].id : i \in 1..Len(l)}
    /\ dragState = Absent
    /\ tempRect = Absent
    /\ effectPending = FALSE
    /\ mode = "editor"
    /\ opCount = 0
    /\ output = Absent
    /\ ConvUnused /\ ResolveUnused

PanelSwitchUnit == SwitchUnitOf(PanelRows)

NextPanel == PanelSwitchUnit \/ ChangeAnchor

SpecPanel == InitPanel /\ [][NextPanel]_vars

SelectedEl == Find(elements, selectedId)
SelectedRect ==
    LET rt == SelectedEl.runtime[1] IN Rect(rt.x, rt.y, rt.width, rt.height)

\* C17: a unit switch in the property panel, followed by the re-resolution, leaves the
\* selected element's absolute rectangle (x, y, width, height) unchanged
C17_UnitSwitchKeepsRect ==
    [][PanelSwitchUnit => SelectedRect' = SelectedRect]_vars

\* C18: an anchor switch in the property panel, followed by the re-resolution, leaves
\* the selected element's absolute x and y unchanged
C18_AnchorSwitchKeepsPosition ==
    [][ChangeAnchor => (SelectedRect'.x = SelectedRect.x /\ SelectedRect'.y = SelectedRect.y)]_vars

\* what the two switches do keep: the rectangle of an element whose parent and parent
\* rectangle are the same after the re-resolution and, for a unit switch, whose x and y
\* are not in viewport units afterwards
SelectedFrame ==
    <<SelectedEl.runtime[1].parentId,
      getParentRect(SelectedEl.runtime[1].parentId, elements, viewport)>>

PositionUnitsLocal ==
    SelectedEl.layout.x.unit \notin {VW, VH} /\ SelectedEl.layout.y.unit \notin {VW, VH}

\* the largest magnitude among the coordinates and sizes of the selected element's
\* rectangle, of its parent's rectangle and of the viewport
PanelScale ==
    LargestMagnitude(<<SelectedRect.x, SelectedRect.y, SelectedRect.width, SelectedRect.height,
                       SelectedFrame[2].x, SelectedFrame[2].y,
                       SelectedFrame[2].width, SelectedFrame[2].height,
                       viewport.width, viewport.height>>)

\* the selected element's rectangle is the one it was, up to rounding
SelectedRectKept ==
    \A f \in {"x", "y", "width", "height"} : Near(SelectedRect'[f], SelectedRect[f], PanelScale)

UnitSwitchKeepsRectInSameFrame ==
    [][(PanelSwitchUnit /\ SelectedFrame' = SelectedFrame /\ PositionUnitsLocal')
          => SelectedRectKept]_vars

AnchorSwitchKeepsRectInSameFrame ==
    [][(ChangeAnchor /\ SelectedFrame' = SelectedFrame) => SelectedRectKept]_vars

\* the two claims read up to rounding: the switches move elements by more than that
UnitSwitchKeepsRectUpToRounding == [][PanelSwitchUnit => SelectedRectKept]_vars
AnchorSwitchKeepsPositionUpToRounding == [][ChangeAnchor => SelectedRectKept]_vars

-----------------------------------------------------------------------------
(* SpecParentRect: getParentRect on lists whose elements carry a _runtime or
   not, and on parent ids of every kind *)

\* the list without the _runtime of its last element: `[...prev, newEl]` of addElement
withRawLast(resolvedList, raw) ==
    IF Len(raw) = 0 THEN <<>>
    ELSE Append(SubSeq(resolvedList, 1, Len(raw) - 1), raw[Len(raw)])

ParentIdInputs == {Null, Undefined, "", "root", "e1", "e2", "e3", "e4", "nobody"}

InitParentRect ==
    /\ viewport = VIEWPORTS[1]
    /\ \E l \in PanelLists :
         \E r \in {calculateRuntimePositions(l, VIEWPORTS[1])} :
            elements \in {l, r, withRawLast(r, l)}
    /\ \E p \in ParentIdInputs : conv = [op |-> "input", parentId |-> p]
    /\ output = Absent
    /\ ResolveUnused /\ EditorUnused

GetParentRect ==
    /\ conv.op = "input"
    /\ conv' = [op |-> "get_parent_rect", parentId |-> conv.parentId,
                rect |-> getParentRect(conv.parentId, elements, viewport)]
    /\ UNCHANGED <<engineVars, resolveVars, editorVars>>

NextParentRect == GetParentRect

SpecParentRect == InitParentRect /\ [][NextParentRect]_vars

\* the positions of the list that hold the id
Referenced(id) == {i \in 1..Len(elements) : elements[i].id = id}

\* C20: getParentRect returns the viewport rectangle at the origin when the parent id is
\* null, undefined, 'root', the id of no element, or the id of an element without
\* _runtime; otherwise it returns the referenced element's _runtime rectangle
C20_ParentRectFallsBackToViewport ==
    conv.op = "get_parent_rect" =>
        IF \/ conv.parentId \in {Null, Undefined, "root"}
           \/ Referenced(conv.parentId) = {}
           \/ \E i \in Referenced(conv.parentId) : elements[i].runtime = Absent
        THEN conv.rect = [x |-> Zero, y |-> Zero,
                          width |-> viewport.width, height |-> viewport.height]
        ELSE \E i \in Referenced(conv.parentId) :
                LET rt == elements[i].runtime[1]
                IN  conv.rect = [x |-> rt.x, y |-> rt.y, width |-> rt.width, height |-> rt.height]

\* the id of an element without _runtime, next to a resolved one away from the origin
C20_Witness ==
    /\ conv.op = "get_parent_rect"
    /\ Referenced(conv.parentId) # {}
    /\ \A i \in Referenced(conv.parentId) : elements[i].runtime = Absent
    /\ \E j \in 1..Len(elements) :
          elements[j].runtime # Absent /\ elements[j].runtime[1].x # Zero
    /\ conv.rect.x = Zero /\ conv.rect.width = viewport.width

-----------------------------------------------------------------------------
(* SpecDrop: drag and resize gestures on resolved lists drawn from a palette *)

DropPalette ==
    { \* container of half the viewport at the origin: (0,0,640,400)
      LayoutConfig(Px(0), Px(0), Pct(50, PERCENT_PARENT_W), Pct(50, PERCENT_PARENT_H),
                   Some(1), "left", "top", Some(TRUE)),
      \* a container above the others in z-order: (200,100,300,200)
      LayoutConfig(Px(200), Px(100), Px(300), Px(200), Some(3), "left", "top", Some(TRUE)),
      \* anchored to the right and bottom edges, every magnitude in a percent unit
      LayoutConfig(Pct(10, PERCENT_PARENT_W), Pct(10, PERCENT_PARENT_H),
                   Pct(5, VW), Pct(10, PERCENT_PARENT_H), Some(2), "right", "bottom", Absent),
      \* a container of width 0: the line x = 100
      LayoutConfig(Px(100), Px(0), Px(0), Px(400), Some(5), "left", "top", Some(TRUE)),
      \* a small element that is no container, x in percent of the parent's width: 35
      \* against the viewport; its z-index field was cleared in the property panel
      \* (parseInt('') is NaN)
      LayoutConfig(LayoutValue(<<175, 64>>, PERCENT_PARENT_W), Px(10), Px(50), Px(50),
                   parseInt(""), "left", "top", Some(FALSE)) }

DropLists ==
    UNION {
        {[i \in 1..n |-> Element(Ids[i], f[i])] : f \in [1..n -> DropPalette]} :
        n \in 1..MaxPanelElems}

DropHandles == {"", "nw"}

\* a resolved list with any of its elements, or none, selected
InitDrop ==
    /\ viewport = VIEWPORTS[1]
    /\ \E l \in DropLists : elements = calculateRuntimePositions(l, VIEWPORTS[1])
    /\ selectedId \in {Null} \cup {elements[i].id : i \in 1..Len(elements)}
    /\ dragState = Absent
    /\ tempRect = Absent
    /\ effectPending = FALSE
    /\ mode = "editor"
    /\ opCount = 0
    /\ output = Absent
    /\ ConvUnused /\ ResolveUnused

DropMouseDown == handleMouseDownOn(DropHandles)

NextDrop == DropMouseDown \/ handleMouseMove \/ handleMouseUp

SpecDrop == InitDrop /\ [][NextDrop]_vars

\* a mouse-up that commits: the step, the dragged element before and after it
IsCommit ==
    /\ dragState # Absent /\ dragState' = Absent
    /\ tempRect # Absent /\ Has(elements, tempRect[1].id)

DraggedBefore == Find(elements, tempRect[1].id)
DraggedAfter == Find(elements', tempRect[1].id)

\* the rectangle of the parent the drop chose, or the viewport's
ChosenParentRect(d) == getParentRect(d.runtime[1].parentId, elements, viewport)

\* the committed element resolves forward to the rectangle written to its _runtime
ResolvesToDropped(d) ==
    resolveAgainst(d, viewport, ChosenParentRect(d), d.runtime[1].parentId) = d

\* the largest magnitude among the coordinates and sizes of the dropped rectangle, of the
\* chosen parent's rectangle and of the viewport
DropScale(d) ==
    LargestMagnitude(<<d.runtime[1].x, d.runtime[1].y, d.runtime[1].width, d.runtime[1].height,
                       ChosenParentRect(d).x, ChosenParentRect(d).y,
                       ChosenParentRect(d).width, ChosenParentRect(d).height,
                       viewport.width, viewport.height>>)

\* the committed element resolves forward to the rectangle written to its _runtime up to
\* rounding: no coordinate or size differs by more than 2^-46 times DropScale
ResolvesNearDropped(d) ==
    \E r \in {resolveAgainst(d, viewport, ChosenParentRect(d), d.runtime[1].parentId)} :
        \A f \in {"x", "y", "width", "height"} :
            Near(r.runtime[1][f], d.runtime[1][f], DropScale(d))

\* no magnitude of the element is in a percent unit whose reference dimension is 0
ReferencesNonZero(d) ==
    \A prop \in {"x", "y", "width", "height"} :
        refDimension(d.layout[prop].unit, viewport, ChosenParentRect(d)) # Zero

\* C21 as stated: after every commit the committed LayoutConfig, resolved forward
\* against the chosen parent's rectangle, reproduces the dropped rectangle
C21_CommitResolvesToDroppedRect ==
    [][IsCommit => ResolvesToDropped(DraggedAfter)]_vars

\* C21 (amended): after a commit the committed LayoutConfig, resolved forward against the
\* chosen parent's rectangle (or the viewport), reproduces the dropped rectangle up to
\* rounding whenever no magnitude is in a percent unit whose reference dimension is 0;
\* its units and anchors are the ones it had
C21_CommitResolvesToDroppedRectNonZeroRef ==
    [][IsCommit =>
          /\ ReferencesNonZero(DraggedAfter) => ResolvesNearDropped(DraggedAfter)
          /\ \A prop \in {"x", "y", "width", "height"} :
                DraggedAfter.layout[prop].unit = DraggedBefore.layout[prop].unit
          /\ DraggedAfter.layout.anchorX = DraggedBefore.layout.anchorX
          /\ DraggedAfter.layout.anchorY = DraggedBefore.layout.anchorY
          /\ DraggedAfter.runtime = Some(Runtime(tempRect[1].x, tempRect[1].y, tempRect[1].w,
                                                 tempRect[1].h, DraggedAfter.runtime[1].parentId))]_vars

\* a committed drop of the right-anchored percent element into a container: its
\* configuration resolves to the dropped rectangle, but for the rounding of a percentage
C21_Witness ==
    /\ dragState = Absent /\ opCount >= 1
    /\ \E i \in 1..Len(elements) :
          /\ elements[i].layout.anchorX = "right"
          /\ elements[i].layout.x.unit = PERCENT_PARENT_W
          /\ elements[i].layout.x.value # Num(10)
          /\ elements[i].runtime[1].parentId # Null
          /\ ResolvesNearDropped(elements[i])
          /\ ~ResolvesToDropped(elements[i])
          /\ elements # calculateRuntimePositions(elements, viewport)

\* a z-order that is a number (not NaN)
IsNumberZ(el) == el.layout.zIndex # Absent
ZOf(el) == el.layout.zIndex[1]

\* JavaScript's a > b on z-orders: false when either is NaN
ZAbove(a, b) == IsNumberZ(a) /\ IsNumberZ(b) /\ ZOf(a) > ZOf(b)

\* C22: after a commit that selects a parent, the dragged element's z-order is strictly
\* greater than the parent's
C22_DroppedAboveParent ==
    [][(IsCommit /\ DraggedAfter.runtime[1].parentId # Null) =>
          ZAbove(DraggedAfter, Find(elements, DraggedAfter.runtime[1].parentId))]_vars

\* what the auto-correction does keep: when both z-orders are numbers the dragged
\* element ends above its parent, at parent z + 1 when it was less than or equal to the
\* parent's and unchanged otherwise; a drop on the root leaves the z-order unchanged
DroppedAboveParentWhenNumbers ==
    [][IsCommit =>
          IF DraggedAfter.runtime[1].parentId # Null
          THEN LET p == Find(elements, DraggedAfter.runtime[1].parentId)
               IN  (IsNumberZ(DraggedBefore) /\ IsNumberZ(p)) =>
                      /\ ZOf(DraggedAfter) > ZOf(p)
                      /\ ZOf(DraggedBefore) <= ZOf(p) => ZOf(DraggedAfter) = ZOf(p) + 1
                      /\ ZOf(DraggedBefore) > ZOf(p) => ZOf(DraggedAfter) = ZOf(DraggedBefore)
          ELSE DraggedAfter.layout.zIndex = DraggedBefore.layout.zIndex]_vars


(***************************************************************************)
(* SpecViewport: viewport changes between gestures, with the effect of     *)
(* App.tsx scheduled after every render that changed width or height       *)
(***************************************************************************)

\* the sizes typed into the custom size inputs
ViewportSizes == {<<"width", 0>>, <<"width", 375>>, <<"height", 667>>, <<"height", 1080>>}

\* a click on any of the viewport presets
ViewportPreset ==
    /\ CanOperate /\ InEditorMode
    /\ \E i \in 1..Len(VIEWPORTS) : SetViewportTo(VIEWPORTS[i])

\* App.tsx handleViewportResize with a number in the field
ViewportResize ==
    /\ CanOperate
    /\ \E in \in ViewportSizes :
          SetViewportTo([viewport EXCEPT ![in[1]] = Num(in[2])])

NextViewport ==
    \/ ViewportPreset
    \/ ViewportResize
    \/ ViewportEffect
    \/ handleMouseDown
    \/ handleMouseMove
    \/ handleMouseUp

\* React runs every effect it has scheduled
SpecViewport == InitEditor /\ [][NextViewport]_vars /\ WF_vars(ViewportEffect)

SizeChanges == viewport'.width # viewport.width \/ viewport'.height # viewport.height

\* the run of the scheduled effect
EffectRuns ==
    /\ elements' = calculateRuntimePositions(elements, viewport)
    /\ viewport' = viewport
    /\ ~effectPending'

Settled == ~effectPending /\ elements = calculateRuntimePositions(elements, viewport)

\* C23: a change of the viewport's width or height leaves the elements as they are and
\* schedules the effect; a scheduled effect is discharged by its run alone, which
\* replaces the elements by calculateRuntimePositions(previous elements, new viewport);
\* the effect always runs, whatever the mouse does in between, and then every _runtime
\* is the one computed against the new viewport.
C23_ViewportChangeSettles ==
    /\ [][SizeChanges => (effectPending' /\ elements' = elements)]_vars
    /\ [][(effectPending /\ ~effectPending') => EffectRuns]_vars
    /\ (effectPending ~> Settled)

\* a dragged element, stored with the rectangle of its drop, after a later viewport change
C23_Witness ==
    /\ Settled
    /\ viewport.width # VIEWPORTS[1].width
    /\ \E i \in 1..Len(elements) : elements[i].layout # INITIAL_ELEMENTS_RAW[i].layout


-----------------------------------------------------------------------------
(* The drop's parent selection against Pass 2 (SpecLayout): both run on the     *)
(* Pass-2 list, the same elements with the same rectangles                      *)

\* the parent a drop of element i at its own rectangle chooses among withParents
DropParentIdOf(i) ==
    LET rt == withParents[i].runtime[1]
        parents == dropParents(withParents, withParents[i],
                               Add(rt.x, Div(rt.width, Two)), Add(rt.y, Div(rt.height, Two)))
    IN  IF parents # <<>> THEN parents[1].id ELSE Null

\* C25: for every element of every list, the parent the drop's selection chooses from
\* the elements and rectangles Pass 2 worked on, for the same centre point, is the
\* parent Pass 2 assigned (null when there is no candidate).
C25_DropSelectsPass2Parent ==
    Done => \A i \in 1..N : DropParentIdOf(i) = withParents[i].runtime[1].parentId

\* a child with two candidates of the same z-order, the larger one first in the list:
\* both rules choose the smaller, later one
C25_Witness ==
    /\ Done
    /\ \E i \in 1..N : \E j \in Candidates(i) : \E k \in Candidates(i) :
          /\ j < k /\ ZAt(j) = ZAt(k) /\ Less(AreaAt(k), AreaAt(j))
          /\ TopZ(i) = Candidates(i)
          /\ DropParentIdOf(i) = elements[k].id
          /\ withParents[i].runtime[1].parentId = elements[k].id


-----------------------------------------------------------------------------
(* The frame of a commit (SpecDrop) *)

\* the list of the commit with the dragged element at the dropped rectangle
RECURSIVE atDropFirst(_)
atDropFirst(n) ==
    IF n = 0 THEN <<>>
    ELSE Append(atDropFirst(n - 1),
                IF elements[n].id = tempRect[1].id
                THEN [elements[n] EXCEPT !.runtime =
                         Some(Runtime(tempRect[1].x, tempRect[1].y, tempRect[1].w,
                                      tempRect[1].h, Null))]
                ELSE elements[n])

\* in the editor too, the parent a commit stores is the one Pass 2 assigns to the
\* dragged element among the stored rectangles
CommitSelectsPass2Parent ==
    [][IsCommit =>
          (CHOOSE it \in
              {DraggedAfter.runtime[1].parentId =
               assignParent(Find(est, tempRect[1].id), est).runtime[1].parentId
                 : est \in {atDropFirst(Len(elements))}} : TRUE)]_vars

\* C26: after a commit, the array the commit started from reads as it did before:
\* none of its elements, LayoutConfigs or value objects has been written to.
C26_CommitIsCopyOnWrite ==
    [][IsCommit => previousFirst(Len(elements), elements, elements') = elements]_vars

\* C27: a commit keeps the length and order of the list and leaves every element other
\* than the dragged one as it was: LayoutConfig, rectangle and parentId.
C27_CommitChangesOnlyDragged ==
    [][IsCommit =>
          /\ Len(elements') = Len(elements)
          /\ \A i \in 1..Len(elements) :
                /\ elements'[i].id = elements[i].id
                /\ elements[i].id # tempRect[1].id => elements'[i] = elements[i]]_vars

\* after the commit of the container pressed last, its child still has the parentId and
\* the rectangle it had: its centre is outside the container now, and the rectangle is
\* not its configuration resolved against the container
C27_Witness ==
    /\ dragState = Absent /\ opCount >= 1
    /\ \E c \in 1..Len(elements) : \E d \in 1..Len(elements) :
          /\ selectedId = elements[d].id
          /\ elements[c].runtime[1].parentId = elements[d].id
          /\ elements[d].runtime[1].parentId = Null
          /\ ~containsPoint(centerX(elements[c].runtime[1]), centerY(elements[c].runtime[1]),
                            elements[d].runtime[1])
          /\ elements[c] # resolveAgainst(elements[c], viewport,
                                          getParentRect(elements[d].id, elements, viewport),
                                          elements[d].id)


-----------------------------------------------------------------------------
(* Parent links in the editor (Spec) *)

\* C28: in every state of the editor, every element's _runtime.parentId is null or the
\* id of another element of the current list.
C28_ParentIdNullOrOtherElement ==
    \A i \in 1..Len(elements) :
        /\ elements[i].runtime # Absent
        /\ LET parentId == elements[i].runtime[1].parentId
           IN  \/ parentId = Null
               \/ parentId # elements[i].id /\ Has(elements, parentId)

\* after a commit: an element stored with the rectangle of its drop and the parent
\* chosen at the drop, beside an added element
C28_Witness ==
    /\ dragState = Absent /\ ~effectPending
    /\ Len(elements) > Len(INITIAL_ELEMENTS_RAW)
    /\ \E i \in 1..Len(elements) :
          /\ elements[i].runtime[1].parentId # Null
          /\ elements[i] # calculateRuntimePositions(elements, viewport)[i]


-----------------------------------------------------------------------------
(* SpecGesture: a press on an element or on any of the eight handles of the     *)
(* selected element, and the pointer moving about                               *)

GestureHandles == RESIZE_HANDLES \cup {""}

\* pointer moves on the unscaled canvas: far up and left, and down and right by less and
\* by more than the sizes of the palette's elements leave room for; and on a scaled one:
\* 250 pixels up and left at the scale 0.75 (a delta of -333.3333333333333) and 100
\* pixels up and left at the scale 0.3 (a delta of -333.33333333333337)
GestureMoves ==
    {<<-1000, -500, InitialScale>>, <<40, 100, InitialScale>>, <<100, 40, InitialScale>>,
     <<2000, 2000, InitialScale>>, <<-250, -250, WideScale>>, <<-100, -100, NarrowScale>>}

GestureMouseDown == handleMouseDownOn(GestureHandles)
GestureMouseMove == handleMouseMoveBy(GestureMoves)

\* one gesture, up to its release
NextGesture == GestureMouseDown \/ GestureMouseMove

SpecGesture == InitDrop /\ [][NextGesture]_vars

InitialRect == dragState[1].initialRect
Handle == dragState[1].handle
AtLeastMinSize(n) == Leq(MinSize, n)

\* C29 as stated: during a gesture on an element that was at least 10 wide and 10 high
\* when it was pressed: while resizing, the override rectangle is at least 10 wide and 10
\* high, its right edge is the initial right edge for the handles nw, w and sw, and its
\* bottom edge is the initial bottom edge for the handles nw, n and ne; while moving, its
\* width and height are the initial ones.
C29_GestureKeepsSizeBounds ==
    (/\ dragState # Absent /\ tempRect # Absent
     /\ AtLeastMinSize(InitialRect.width) /\ AtLeastMinSize(InitialRect.height))
    => IF Handle # ""
       THEN /\ AtLeastMinSize(tempRect[1].w) /\ AtLeastMinSize(tempRect[1].h)
            /\ includes(Handle, "w") =>
                  Add(tempRect[1].x, tempRect[1].w) = Add(InitialRect.x, InitialRect.width)
            /\ includes(Handle, "n") =>
                  Add(tempRect[1].y, tempRect[1].h) = Add(InitialRect.y, InitialRect.height)
       ELSE /\ tempRect[1].w = InitialRect.width
            /\ tempRect[1].h = InitialRect.height

\* a whole number
IsWhole(a) == IsShort(a) /\ a[2] = 1

\* the edge origin + size of the override rectangle is the initial one: the very number
\* when the four numbers are whole, and otherwise within 2^-46 times the largest
\* magnitude among them
EdgeKept(origin, size, initialOrigin, initialSize) ==
    /\ Near(Add(origin, size), Add(initialOrigin, initialSize),
            LargestMagnitude(<<origin, size, initialOrigin, initialSize>>))
    /\ (IsWhole(origin) /\ IsWhole(size) /\ IsWhole(initialOrigin) /\ IsWhole(initialSize))
          => Add(origin, size) = Add(initialOrigin, initialSize)

\* C29 (amended): during a gesture on an element that was at least 10 wide and 10 high
\* when it was pressed: while resizing, the override rectangle is at least 10 wide and 10
\* high; for the handles nw, w and sw its right edge, and for the handles nw, n and ne its
\* bottom edge, is the initial one up to rounding, and exactly when the coordinates are
\* whole numbers; while moving, its width and height are the initial ones.
C29_GestureKeepsSizeBoundsUpToRounding ==
    (/\ dragState # Absent /\ tempRect # Absent
     /\ AtLeastMinSize(InitialRect.width) /\ AtLeastMinSize(InitialRect.height))
    => IF Handle # ""
       THEN /\ AtLeastMinSize(tempRect[1].w) /\ AtLeastMinSize(tempRect[1].h)
            /\ includes(Handle, "w") =>
                  EdgeKept(tempRect[1].x, tempRect[1].w, InitialRect.x, InitialRect.width)
            /\ includes(Handle, "n") =>
                  EdgeKept(tempRect[1].y, tempRect[1].h, InitialRect.y, InitialRect.height)
       ELSE /\ tempRect[1].w = InitialRect.width
            /\ tempRect[1].h = InitialRect.height

\* the handle nw dragged up and left by 250 pixels on a canvas scaled to 0.75: the
\* rectangle has grown, and its right edge is the initial one but for the last bit
C29_Witness ==
    /\ dragState # Absent /\ tempRect # Absent
    /\ Handle = "nw"
    /\ Less(InitialRect.width, tempRect[1].w) /\ Less(InitialRect.height, tempRect[1].h)
    /\ Add(tempRect[1].x, tempRect[1].w) # Add(InitialRect.x, InitialRect.width)
    /\ EdgeKept(tempRect[1].x, tempRect[1].w, InitialRect.x, InitialRect.width)

\* the handle nw dragged down and right beyond the element's size: the rectangle has
\* shrunk to 10 by 10 against its fixed right and bottom edges
ShrunkToMinimum ==
    /\ dragState # Absent /\ tempRect # Absent
    /\ Handle = "nw"
    /\ Less(MinSize, InitialRect.width) /\ Less(MinSize, InitialRect.height)
    /\ tempRect[1].w = MinSize /\ tempRect[1].h = MinSize
    /\ tempRect[1].x = Sub(Add(InitialRect.x, InitialRect.width), MinSize)
    /\ tempRect[1].y = Sub(Add(InitialRect.y, InitialRect.height), MinSize)


-----------------------------------------------------------------------------
(* SpecLayers: layer-panel drops on resolved lists, z-order ties and missing    *)
(* z-orders included                                                           *)

LayerPalette ==
    { \* a container and a smaller one inside it, of the same z-order
      PxBox(0, 0, 100, 100, Some(1), Absent),
      PxBox(0, 0, 40, 40, Some(1), Some(TRUE)),
      \* a box inside both, without a z-order, not a container
      PxBox(10, 10, 20, 20, parseInt(""), Some(FALSE)) }

LayerLists ==
    UNION {
        {[i \in 1..n |-> Element(Ids[i], f[i])] : f \in [1..n -> LayerPalette]} :
        n \in 1..MaxElems}

\* a list of the palette after two clicks on an add button: in two milliseconds, or
\* within one, and then the two new elements have the same id
TwiceAdded(l, vp) ==
    {withNewEl(withNewEl(calculateRuntimePositions(l, vp), 1, vp), now, vp) : now \in 1..2}

InitLayers ==
    /\ viewport \in EngineViewports
    /\ \E l \in LayerLists :
          \/ elements = calculateRuntimePositions(l, viewport)
          \/ Len(l) + 2 <= MaxElems /\ elements \in TwiceAdded(l, viewport)
    /\ selectedId = Null
    /\ dragState = Absent
    /\ tempRect = Absent
    /\ effectPending = FALSE
    /\ mode = "editor"
    /\ opCount = 0
    /\ output = Absent
    /\ ConvUnused /\ ResolveUnused

NextLayers == LayerDrop

SpecLayers == InitLayers /\ [][NextLayers]_vars

\* the layer panel's list of ids, top first
PanelOrder(els) == idsOf(sortedElements(els))
Without(seq, i) == SubSeq(seq, 1, i - 1) \o SubSeq(seq, i + 1, Len(seq))

\* no two elements of the list have the same id
DistinctIds(els) == \A i, j \in 1..Len(els) : els[i].id = els[j].id => i = j

\* a layer drop leaves the list's order and every LayoutConfig field other than the
\* z-order as they are; the panel's new order has one item moved to the index another
\* item had, with the other items in their previous relative order; every element's
\* z-order is the number of elements minus its index in the new order, the values
\* n..1; and the stored list is calculateRuntimePositions of itself.
Restacked ==
    LET n == Len(elements)
        old == PanelOrder(elements)
        new == PanelOrder(elements')
    IN  /\ Len(elements') = n
        /\ \A i \in 1..n :
              /\ elements'[i].id = elements[i].id
              /\ [elements'[i].layout EXCEPT !.zIndex = Absent]
                    = [elements[i].layout EXCEPT !.zIndex = Absent]
              /\ elements'[i].layout.zIndex = Some(n - (IndexOf(new, elements[i].id) - 1))
        /\ {elements'[i].layout.zIndex : i \in 1..n} = {Some(z) : z \in 1..n}
        /\ \E from \in 1..n : \E to \in 1..n :
              /\ from # to
              /\ new[to] = old[from]
              /\ Without(new, to) = Without(old, from)
        /\ elements' = calculateRuntimePositions(elements', viewport)

\* C30: every layer drop of an item on another one restacks the list as described above
C30_LayerDropRestacks == [][Restacked]_vars

\* what holds: a layer drop on a list without equal ids restacks it
LayerDropRestacksDistinctIds == [][DistinctIds(elements) => Restacked]_vars

\* after a drop on a list with two elements of one id: the two have the same z-order
TwinsShareZOrder ==
    /\ opCount >= 1
    /\ \E i, j \in 1..Len(elements) :
          /\ i # j /\ elements[i].id = elements[j].id
          /\ elements[i].layout.zIndex = elements[j].layout.zIndex

\* after a drop on a list that came with equal z-orders: a child inside two containers
\* is the child of the one the drop put higher, which is the larger one
ChildOfTheHigherContainer ==
    /\ opCount >= 1 /\ Len(elements) >= 3
    /\ {elements[i].layout.zIndex : i \in 1..Len(elements)}
          = {Some(z) : z \in 1..Len(elements)}
    /\ \E c \in 1..Len(elements) : \E p \in 1..Len(elements) : \E q \in 1..Len(elements) :
          /\ isCandidate(elements[p], elements[c])
          /\ isCandidate(elements[q], elements[c])
          /\ Less(area(elements[q].runtime[1]), area(elements[p].runtime[1]))
          /\ elements[p].layout.zIndex[1] > elements[q].layout.zIndex[1]
          /\ elements[c].runtime[1].parentId = elements[p].id

====
